---- MODULE Spec2Model ----
(***************************************************************************)
(* A model of the semantic-analysis pass of the compis compiler            *)
(* (src/src/typecheck.c).  The pass is a single-threaded recursive descent *)
(* over an AST; the model is split into parts, one per group of rules of   *)
(* the checker, each with its own state variable and specification:        *)
(*                                                                         *)
(*   tc    type compatibility (_type_compat and friends)      SpecCompat   *)
(*   lit   integer literals (intlit)                          SpecLit      *)
(*   lay   struct layout (structtype)                         SpecLay      *)
(*   ck    the pass over a unit (typecheck): the rules, the   SpecAssign,  *)
(*         scopes, the template instances, the postanalyze    SpecIf,      *)
(*         loop and the error code returned; one              SpecType,    *)
(*         specification for each family of programs          SpecAlias,   *)
(*                                                            SpecIfValue, *)
(*                                                            SpecBinop,   *)
(*                                                            SpecStructs, *)
(*                                                            SpecFuns,    *)
(*                                                            SpecBlocks,  *)
(*                                                            SpecLatch,   *)
(*                                                            SpecFatal,   *)
(*                                                            SpecSelfRef, *)
(*                                                            SpecScrub,   *)
(*                                                            SpecCast,    *)
(*                                                            SpecResult,  *)
(*                                                            SpecOwn,     *)
(*                                                            SpecNarrow,  *)
(*                                                            SpecCtx      *)
(*                                                                         *)
(* Type nodes live in a heap: a function from node ids (the pointers of    *)
(* the C code) to records.  Pointer equality of the C code is equality of  *)
(* ids; structural operators take the heap as their first argument.        *)
(***************************************************************************)
EXTENDS Integers, Sequences, FiniteSets, TLC

VARIABLES tc, lit, lay, ck

vars == <<tc, lit, lay, ck>>

\* The value of a part's variable in the specifications of the other parts.
Idle == [pc |-> "idle"]

----------------------------------------------------------------------------
(***************************************************************************)
(* Type nodes                                                              *)
(***************************************************************************)

\* compiler.h FOREACH_NODEKIND_PRIMTYPE: TYPE_VOID <= kind <= TYPE_UNKNOWN
PrimKinds ==
  {"void", "bool", "i8", "i16", "i32", "i64", "int",
   "u8", "u16", "u32", "u64", "uint", "f32", "f64", "unknown"}

\* a type node: kind, element (0 = none), flags, array length
TY(kind, elem, flags, len) ==
  [kind |-> kind, elem |-> elem, flags |-> flags, len |-> len]

Prim(kind) == TY(kind, 0, {"NF_CHECKED"}, 0)

\* nodekind_isprimtype
nodekind_isprimtype(kind) == kind \in PrimKinds

\* type_isptr: *T
type_isptr(h, t) == h[t].kind = "ptr"

\* type_isref: &T | mut&T
type_isref(h, t) == h[t].kind \in {"ref", "mutref"}

\* type_isptrlike: &T | mut&T | *T
type_isptrlike(h, t) == h[t].kind \in {"ptr", "ref", "mutref"}

\* type_isopt: ?T
type_isopt(h, t) == h[t].kind = "optional"

\* type_isowner (typecheck.c:149)
RECURSIVE type_isowner(_, _)
type_isowner(h, t0) ==
  LET t == IF type_isopt(h, t0) THEN h[t0].elem ELSE t0 IN
    \/ h[t].flags \cap {"NF_DROP", "NF_SUBOWNERS"} # {}
    \/ type_isptr(h, t)
    \/ (h[t].kind = "alias" /\ type_isowner(h, h[t].elem))

\* unwrap_alias (typecheck.c:172)
RECURSIVE unwrap_alias(_, _)
unwrap_alias(h, t) ==
  IF h[t].kind = "alias" THEN unwrap_alias(h, h[t].elem) ELSE t

\* concrete_type (typecheck.c:213); c = [inttype, uinttype, intsize, ptrsize]
RECURSIVE concrete_type(_, _, _)
concrete_type(c, h, t) ==
  CASE h[t].kind = "alias" -> concrete_type(c, h, h[t].elem)
    [] h[t].kind = "int"   -> concrete_type(c, h, c.inttype)
    [] h[t].kind = "uint"  -> concrete_type(c, h, c.uinttype)
    [] OTHER               -> t

\* type_compat_unwrap (typecheck.c:244)
RECURSIVE type_compat_unwrap(_, _, _, _)
type_compat_unwrap(c, h, t, may_deref) ==
  CASE h[t].kind = "alias" -> type_compat_unwrap(c, h, h[t].elem, may_deref)
    [] h[t].kind = "int"   -> type_compat_unwrap(c, h, c.inttype, may_deref)
    [] h[t].kind = "uint"  -> type_compat_unwrap(c, h, c.uinttype, may_deref)
    [] h[t].kind \in {"ref", "mutref"} ->
         IF ~may_deref THEN t
         ELSE type_compat_unwrap(c, h, h[t].elem, FALSE)
    [] OTHER -> t

\* a defect the mutability rule could have: the two sides exchanged
MutOkSwapped(l_ismut, r_ismut) == (r_ismut = l_ismut) \/ l_ismut \/ ~r_ismut

\* the mutability rule of references and slices (typecheck.c:346, 367, 376)
MutOk(l_ismut, r_ismut) == (r_ismut = l_ismut) \/ r_ismut \/ ~l_ismut

\* _type_compat (typecheck.c:265) and type_compat (typecheck.c:229)
RECURSIVE type_compat(_, _, _, _, _)
type_compat1(c, h, x0, y0, assignment) ==
  LET x == type_compat_unwrap(c, h, x0, ~assignment)
      y == type_compat_unwrap(c, h, y0, ~assignment)
      xk == h[x].kind
      yd == IF assignment THEN type_compat_unwrap(c, h, y, TRUE) ELSE y
  IN
  IF x = y THEN TRUE
  ELSE CASE xk \in {"i8", "i16", "i32", "i64", "u8", "u16", "u32", "u64"} ->
              x = yd
         [] xk = "struct" ->
              x = yd /\ ~type_isowner(h, x)
         [] xk = "ptr" ->
              type_isptrlike(h, y) /\
              type_compat(c, h, h[x].elem, h[y].elem, assignment)
         [] xk = "optional" ->
              LET y2 == IF h[y].kind = "optional" THEN h[y].elem ELSE y IN
                type_compat(c, h, h[x].elem, y2, assignment)
         [] xk \in {"ref", "mutref"} ->
              IF h[y].kind = "ptr"
              THEN type_compat(c, h, h[x].elem, h[y].elem, assignment)
              ELSE type_isref(h, y) /\
                   MutOk(xk = "mutref", h[y].kind = "mutref") /\
                   type_compat(c, h, h[x].elem, h[y].elem, assignment)
         [] xk \in {"slice", "mutslice"} ->
              CASE h[y].kind \in {"slice", "mutslice"} ->
                     MutOk(xk = "mutslice", h[y].kind = "mutslice") /\
                     type_compat(c, h, h[x].elem, h[y].elem, assignment)
                [] h[y].kind \in {"ref", "mutref"} ->
                     LET r == h[y].elem IN
                       h[r].kind = "array" /\
                       MutOk(xk = "mutslice", h[y].kind = "mutref") /\
                       type_compat(c, h, h[x].elem, h[r].elem, assignment)
                [] OTHER -> FALSE
         [] xk = "array" ->
              h[y].kind = "array" /\ h[x].len = h[y].len /\
              type_compat(c, h, h[x].elem, h[y].elem, assignment)
         [] OTHER -> FALSE

type_compat(c, h, x, y, assignment) ==
  x = y \/ type_compat1(c, h, x, y, assignment)

\* type_isassignable (typecheck.c:237): a value of type y can be assigned to
\* a local of type x
type_isassignable(c, h, x, y) == type_compat(c, h, x, y, TRUE)

\* type_isequivalent (typecheck.c:234)
type_isequivalent(c, h, x, y) ==
  x = y \/ concrete_type(c, h, x) = concrete_type(c, h, y)

----------------------------------------------------------------------------
(***************************************************************************)
(* Part tc: assignability of types.  The inputs are drawn from a fixed     *)
(* universe of type nodes: the primitive singletons, some user types, one  *)
(* layer of pointer-like wrappers over them (twice: the checker does not   *)
(* intern these, so two nodes of equal structure can meet) and a second    *)
(* layer of optional and reference wrappers over all of those.             *)
(***************************************************************************)

\* The base nodes, ids 1..Len(BaseTypes): the primitive singletons of the
\* universe, then two structs (17 has a drop function), aliases, an array
\* and a function type.  Node 26 is an alias of ?i32 (a first-layer node).
BaseTypes == <<
  Prim("void"), Prim("bool"), Prim("i8"), Prim("i16"), Prim("i32"),
  Prim("i64"), Prim("int"), Prim("u8"), Prim("u16"), Prim("u32"),
  Prim("u64"), Prim("uint"), Prim("f32"), Prim("f64"), Prim("unknown"),
  TY("struct", 0, {"NF_CHECKED"}, 0),
  TY("struct", 0, {"NF_CHECKED", "NF_DROP"}, 0),
  TY("alias", 7, {"NF_CHECKED"}, 0),
  TY("alias", 16, {"NF_CHECKED"}, 0),
  TY("array", 5, {"NF_CHECKED"}, 3),
  TY("fun", 0, {"NF_CHECKED"}, 0),
  TY("alias", 3, {"NF_CHECKED"}, 0),
  TY("alias", 9, {"NF_CHECKED"}, 0),
  TY("alias", 18, {"NF_CHECKED"}, 0),
  TY("alias", 12, {"NF_CHECKED"}, 0),
  TY("alias", 31, {"NF_CHECKED"}, 0) >>

\* the primitive kinds in the order of their singleton nodes
PrimNames ==
  <<"void", "bool", "i8", "i16", "i32", "i64", "int",
    "u8", "u16", "u32", "u64", "uint", "f32", "f64", "unknown">>

\* the singleton node of a primitive kind (type_void, type_int, ...)
PrimId(kind) == CHOOSE i \in 1..Len(PrimNames) : PrimNames[i] = kind

Wrappers1 == <<"optional", "ref", "mutref", "ptr", "slice", "mutslice">>
Wrappers2 == <<"optional", "ref", "mutref">>

NBase == Len(BaseTypes)
\* the nodes that serve as element type T: base, first layer and its twins
NElem == NBase + 2 * Len(Wrappers1) * NBase
NUniverse == NElem + Len(Wrappers2) * NElem

UniverseHeap ==
  [i \in 1..NUniverse |->
     IF i <= NBase THEN BaseTypes[i]
     ELSE IF i <= NElem
       THEN LET j == (i - NBase - 1) % (Len(Wrappers1) * NBase) IN
              TY(Wrappers1[(j \div NBase) + 1], (j % NBase) + 1, {"NF_CHECKED"}, 0)
       ELSE LET j == i - NElem - 1 IN
              TY(Wrappers2[(j \div NElem) + 1], (j % NElem) + 1, {"NF_CHECKED"}, 0)]

\* the node ?T, &T, mut&T of the second layer
WrapOf(w, t) == NElem + (w - 1) * NElem + t
OptOf(t) == WrapOf(1, t)
RefOf(t) == WrapOf(2, t)
MutRefOf(t) == WrapOf(3, t)

\* another node of the same structure as t, when the universe has one
TwinOf(t) ==
  IF t <= NBase THEN t
  ELSE IF t <= NBase + Len(Wrappers1) * NBase
    THEN t + Len(Wrappers1) * NBase
    ELSE t - Len(Wrappers1) * NBase

\* compiler_t: the native int types follow target.intsize
Compiler(intsize) ==
  [intsize |-> intsize, ptrsize |-> 8,
   inttype |-> IF intsize = 8 THEN PrimId("i64") ELSE PrimId("i32"),
   uinttype |-> IF intsize = 8 THEN PrimId("u64") ELSE PrimId("u32")]

IntSizes == {4, 8}

CompatForms == {"opt<-T", "T<-opt", "ref<-mutref", "mutref<-ref"}

\* target type X and value type Y of a form over element type T
FormX(form, t) ==
  CASE form = "opt<-T"      -> OptOf(t)
    [] form = "T<-opt"      -> t
    [] form = "ref<-mutref" -> RefOf(t)
    [] form = "mutref<-ref" -> MutRefOf(t)

FormY(form, t) ==
  CASE form = "opt<-T"      -> t
    [] form = "T<-opt"      -> OptOf(t)
    [] form = "ref<-mutref" -> MutRefOf(t)
    [] form = "mutref<-ref" -> RefOf(t)

CompatInit ==
  \E t \in 1..NElem, form \in CompatForms, twin \in BOOLEAN, sz \in IntSizes :
    tc = [pc |-> "call", T |-> t, form |-> form, twin |-> twin,
          intsize |-> sz, res |-> FALSE]

\* one call of type_isassignable(c, X, Y)
CompatCall ==
  /\ tc.pc = "call"
  /\ LET ty == IF tc.twin THEN TwinOf(tc.T) ELSE tc.T IN
       tc' = [tc EXCEPT
                !.pc = "done",
                !.res = type_isassignable(Compiler(tc.intsize), UniverseHeap,
                          FormX(tc.form, tc.T), FormY(tc.form, ty))]
  /\ UNCHANGED <<lit, lay, ck>>

InitCompat == CompatInit /\ lit = Idle /\ lay = Idle /\ ck = Idle
NextCompat == CompatCall
SpecCompat == InitCompat /\ [][NextCompat]_vars

----------------------------------------------------------------------------
(***************************************************************************)
(* Part lit: integer literals.  A u64 is four 16-bit limbs, most           *)
(* significant first, so that the 64-bit bounds of the code are exact.     *)
(***************************************************************************)

U64(l3, l2, l1, l0) == <<l3, l2, l1, l0>>
Limb == 2^16

\* a > b on u64
U64Gt(a, b) ==
  \E i \in 1..4 : a[i] > b[i] /\ \A j \in 1..(i - 1) : a[j] = b[j]
U64Le(a, b) == ~U64Gt(a, b)
U64Lt(a, b) == U64Gt(b, a)

\* a + k on u64, wrapping at 2^64, for a small k
U64Add(a, k) ==
  LET s0 == a[4] + k
      s1 == a[3] + (s0 \div Limb)
      s2 == a[2] + (s1 \div Limb)
      s3 == a[1] + (s2 \div Limb)
  IN <<s3 % Limb, s2 % Limb, s1 % Limb, s0 % Limb>>

\* "u64 isneg = 0; // TODO" (typecheck.c:2328): literals are never negative
intlit_isneg == 0

\* the table with the signed kinds given the bounds of the unsigned kinds
intlit_maxval_unsigned(kind, isneg) ==
  CASE kind \in {"i8", "u8"}   -> U64(0, 0, 0, 255)
    [] kind \in {"i16", "u16"} -> U64(0, 0, 0, 65535)
    [] kind \in {"i32", "u32"} -> U64(0, 0, 65535, 65535)
    [] kind \in {"i64", "u64"} -> U64(65535, 65535, 65535, 65535)

\* the upper bound of each sized integer kind (typecheck.c:2340-2347)
intlit_maxval(kind, isneg) ==
  CASE kind = "i8"  -> U64Add(U64(0, 0, 0, 127), isneg)
    [] kind = "i16" -> U64Add(U64(0, 0, 0, 32767), isneg)
    [] kind = "i32" -> U64Add(U64(0, 0, 32767, 65535), isneg)
    [] kind = "i64" -> U64Add(U64(32767, 65535, 65535, 65535), isneg)
    [] kind = "u8"  -> U64(0, 0, 0, 255)
    [] kind = "u16" -> U64(0, 0, 0, 65535)
    [] kind = "u32" -> U64(0, 0, 65535, 65535)
    [] kind = "u64" -> U64(65535, 65535, 65535, 65535)

SizedIntKinds == {"i8", "i16", "i32", "i64", "u8", "u16", "u32", "u64"}

\* the outcome of intlit: the literal's type, and the type named by the
\* "integer constant overflows" diagnostic (0 = no diagnostic)
LitOut(type, errtype) == [type |-> type, errtype |-> errtype]

\* the end of intlit (typecheck.c:2382-2387)
intlit_finish(uintval, maxval, type) ==
  LitOut(type, IF U64Gt(uintval, maxval) THEN type ELSE 0)

\* intlit (typecheck.c:2324): ntype is the literal's type at entry, intval
\* its value, typectx the expected type
intlit(c, h, ntype, intval, typectx) ==
  IF ntype # PrimId("unknown") THEN LitOut(ntype, 0)
  ELSE
    LET isneg == intlit_isneg
        \* the "again" loop: int and uint continue with the native types
        base0 == unwrap_alias(h, typectx)
        basetype == CASE h[base0].kind = "int"  -> c.inttype
                      [] h[base0].kind = "uint" -> c.uinttype
                      [] OTHER -> base0
        \* "uintval &= ~0x1000000000000000" when negative
        uintval == IF isneg # 0 /\ (intval[1] \div 4096) % 2 = 1
                   THEN <<intval[1] - 4096, intval[2], intval[3], intval[4]>>
                   ELSE intval
        high == U64(32768, 0, 0, 0)
        allones == U64(65535, 65535, 65535, 65535)
    IN
    IF h[basetype].kind \in SizedIntKinds
    THEN intlit_finish(uintval, intlit_maxval(h[basetype].kind, isneg), typectx)
    ELSE IF c.intsize = 8
    THEN
      IF isneg # 0 THEN intlit_finish(uintval, high, PrimId("int"))
      ELSE IF U64Lt(intval, high) THEN LitOut(PrimId("int"), 0)
      ELSE intlit_finish(uintval, allones, PrimId("u64"))
    ELSE
      IF isneg # 0 THEN
        IF U64Le(uintval, U64(0, 0, 32768, 0)) THEN LitOut(PrimId("int"), 0)
        ELSE IF U64Le(uintval, high) THEN LitOut(PrimId("i64"), 0)
        ELSE intlit_finish(uintval, high, PrimId("i64"))
      ELSE
        IF U64Le(intval, U64(0, 0, 32767, 65535)) THEN LitOut(PrimId("int"), 0)
        ELSE IF U64Le(intval, U64(0, 0, 65535, 65535)) THEN LitOut(PrimId("uint"), 0)
        ELSE IF U64Le(intval, U64(32767, 65535, 65535, 65535))
          THEN LitOut(PrimId("i64"), 0)
        ELSE intlit_finish(uintval, allones, PrimId("u64"))

\* literal values: every bound of the table, and the value after it
LitValues ==
  {U64(0, 0, 0, 0), U64(0, 0, 0, 1),
   U64(0, 0, 0, 127), U64(0, 0, 0, 128),
   U64(0, 0, 0, 255), U64(0, 0, 0, 256),
   U64(0, 0, 0, 32767), U64(0, 0, 0, 32768),
   U64(0, 0, 0, 65535), U64(0, 0, 1, 0),
   U64(0, 0, 32767, 65535), U64(0, 0, 32768, 0),
   U64(0, 0, 65535, 65535), U64(0, 1, 0, 0),
   U64(32767, 65535, 65535, 65535), U64(32768, 0, 0, 0),
   U64(65535, 65535, 65535, 65535)}

\* expected types: every base node and the optional wrappers over them
LitContexts == 1..(2 * NBase)

LitInit ==
  \E ctx \in LitContexts, v \in LitValues, sz \in IntSizes,
     nt \in {PrimId("unknown"), PrimId("u8")} :
    lit = [pc |-> "call", typectx |-> ctx, intval |-> v, intsize |-> sz,
           ntype0 |-> nt, out |-> LitOut(nt, 0)]

\* one run of the intlit rule
LitCall ==
  /\ lit.pc = "call"
  /\ lit' = [lit EXCEPT
               !.pc = "done",
               !.out = intlit(Compiler(lit.intsize), UniverseHeap,
                              lit.ntype0, lit.intval, lit.typectx)]
  /\ UNCHANGED <<tc, lay, ck>>

InitLit == LitInit /\ tc = Idle /\ lay = Idle /\ ck = Idle
NextLit == LitCall
SpecLit == InitLit /\ [][NextLit]_vars

\* the kind the claim resolves an expected type to: aliases unwrapped, int
\* and uint taken at the target's native width
LitExpectedKind(ctx, intsize) ==
  LET k == UniverseHeap[unwrap_alias(UniverseHeap, ctx)].kind IN
    CASE k = "int"  -> IF intsize = 8 THEN "i64" ELSE "i32"
      [] k = "uint" -> IF intsize = 8 THEN "u64" ELSE "u32"
      [] OTHER -> k

\* the maxima the claim lists
LitClaimedMax(kind) ==
  CASE kind = "i8"  -> U64(0, 0, 0, 127)
    [] kind = "i16" -> U64(0, 0, 0, 32767)
    [] kind = "i32" -> U64(0, 0, 32767, 65535)
    [] kind = "i64" -> U64(32767, 65535, 65535, 65535)
    [] kind = "u8"  -> U64(0, 0, 0, 255)
    [] kind = "u16" -> U64(0, 0, 0, 65535)
    [] kind = "u32" -> U64(0, 0, 65535, 65535)
    [] kind = "u64" -> U64(65535, 65535, 65535, 65535)

\* C8: for a literal (not yet typed) checked under an expected type that is
\* (an alias of) a sized integer type, int or uint, "integer constant
\* overflows <type>" is emitted iff the value exceeds that type's maximum,
\* and the diagnostic names the expected type.
C8_IntLitOverflow ==
  (lit.pc = "done" /\ lit.ntype0 = PrimId("unknown") /\
   LitExpectedKind(lit.typectx, lit.intsize) \in SizedIntKinds) =>
     /\ (lit.out.errtype # 0) <=>
          U64Gt(lit.intval, LitClaimedMax(LitExpectedKind(lit.typectx, lit.intsize)))
     /\ lit.out.errtype \in {0, lit.typectx}
     /\ lit.out.type = lit.typectx

\* 128 under i8 is reported
C8_Witness ==
  /\ lit.pc = "done" /\ lit.ntype0 = PrimId("unknown")
  /\ lit.typectx = PrimId("i8") /\ lit.intval = U64(0, 0, 0, 128)
  /\ lit.out.errtype = PrimId("i8")

----------------------------------------------------------------------------
(***************************************************************************)
(* Part lay: struct layout.  Two struct types are checked in turn: an      *)
(* inner one (node 16), then an outer one (node 17) whose fields may be of *)
(* the inner type.                                                         *)
(***************************************************************************)

MaxInnerFields == 1
MaxFields == 3

InnerStruct == 16
OuterStruct == 17

\* the node &T of the first layer
Ref1Of(t) == NBase + NBase + t

\* size of the primitive kinds (FOREACH_NODEKIND_PRIMTYPE)
PrimSize(kind) ==
  CASE kind \in {"void", "unknown"} -> 0
    [] kind \in {"bool", "i8", "u8"} -> 1
    [] kind \in {"i16", "u16"} -> 2
    [] kind \in {"i32", "u32", "int", "uint", "f32"} -> 4
    [] kind \in {"i64", "u64", "f64"} -> 8

\* size and alignment of a concrete type; meta holds those of the structs
\* that structtype has laid out
TypeMeta(c, h, meta, t) ==
  CASE h[t].kind \in PrimKinds ->
         [size |-> PrimSize(h[t].kind), align |-> PrimSize(h[t].kind)]
    [] h[t].kind \in {"ref", "mutref"} ->
         [size |-> c.ptrsize, align |-> c.ptrsize]
    [] h[t].kind = "array" ->
         [size |-> h[t].len * PrimSize(h[h[t].elem].kind),
          align |-> PrimSize(h[h[t].elem].kind)]
    [] h[t].kind = "struct" -> [size |-> meta[t].size, align |-> meta[t].align]

\* ALIGN2(x, a): x rounded up to a multiple of the power of two a.  For
\* a = 0 the outcome is either that of the mask form (0) or x itself.
ALIGN2(x, a, zero) ==
  IF a = 0 THEN (IF zero = "mask" THEN 0 ELSE x)
  ELSE ((x + a - 1) \div a) * a

MAX(x, y) == IF x > y THEN x ELSE y

\* the field loop of structtype (typecheck.c:1096-1132)
structtype_layout_fields(c, h, meta, fields, zero) ==
  LET F[i \in 0..Len(fields)] ==
        IF i = 0 THEN [size |-> 0, align |-> 0, offsets |-> <<>>, subowners |-> FALSE]
        ELSE LET p == F[i - 1]
                 t == TypeMeta(c, h, meta, concrete_type(c, h, fields[i]))
                 off == ALIGN2(p.size, t.align, zero)
             IN [size |-> off + t.size,
                 align |-> MAX(p.align, t.align),
                 offsets |-> Append(p.offsets, off),
                 subowners |-> p.subowners \/ type_isowner(h, fields[i])]
  IN F[Len(fields)]

\* the layout structtype computes (typecheck.c:1096-1137)
structtype_layout(c, h, meta, fields, zero) ==
  LET f == structtype_layout_fields(c, h, meta, fields, zero) IN
    [size |-> ALIGN2(f.size, f.align, zero), align |-> f.align,
     offsets |-> f.offsets, subowners |-> f.subowners, checked |-> TRUE]

SeqsUpTo(S, n) == UNION {[1..k -> S] : k \in 0..n}

InnerFieldTypes == {PrimId("i8"), PrimId("i64")}
OuterFieldTypes ==
  {PrimId("i8"), PrimId("i64"), PrimId("int"), InnerStruct, 19, 20,
   Ref1Of(PrimId("i32"))}

NoLayout ==
  [size |-> 0, align |-> 0, offsets |-> <<>>, subowners |-> FALSE,
   checked |-> FALSE]

LayInit ==
  \E fi \in SeqsUpTo(InnerFieldTypes, MaxInnerFields),
     fo \in SeqsUpTo(OuterFieldTypes, MaxFields),
     sz \in IntSizes, zero \in {"mask", "keep"} :
    lay = [pc |-> "inner", intsize |-> sz, zero |-> zero,
           fields |-> (InnerStruct :> fi) @@ (OuterStruct :> fo),
           meta |-> (InnerStruct :> NoLayout) @@ (OuterStruct :> NoLayout)]

\* structtype on the next struct type
LayStructtype ==
  /\ lay.pc \in {"inner", "outer"}
  /\ LET st == IF lay.pc = "inner" THEN InnerStruct ELSE OuterStruct IN
       lay' = [lay EXCEPT
                 !.pc = IF lay.pc = "inner" THEN "outer" ELSE "done",
                 !.meta[st] = structtype_layout(Compiler(lay.intsize), UniverseHeap,
                                lay.meta, lay.fields[st], lay.zero)]
  /\ UNCHANGED <<tc, lit, ck>>

InitLay == LayInit /\ tc = Idle /\ lit = Idle /\ ck = Idle
NextLay == LayStructtype
SpecLay == InitLay /\ [][NextLay]_vars

\* x is aligned to a (an alignment of 0 asks for nothing)
IsAligned(x, a) == a = 0 \/ x % a = 0

\* C7: for every checked struct type, field offsets are non-decreasing in
\* declaration order, each field offset is a multiple of the alignment of
\* the field's concrete type, and the struct size is a multiple of the
\* struct alignment, which is the maximum field alignment.
C7_StructLayout ==
  \A st \in {InnerStruct, OuterStruct} :
    lay.pc # "idle" /\ lay.meta[st].checked =>
      LET m == lay.meta[st]
          fs == lay.fields[st]
          al(i) == TypeMeta(Compiler(lay.intsize), UniverseHeap, lay.meta,
                     concrete_type(Compiler(lay.intsize), UniverseHeap, fs[i])).align
      IN /\ \A i \in 1..(Len(fs) - 1) : m.offsets[i] <= m.offsets[i + 1]
         /\ \A i \in 1..Len(fs) : IsAligned(m.offsets[i], al(i))
         /\ IsAligned(m.size, m.align)
         /\ \A i \in 1..Len(fs) : m.align >= al(i)

----------------------------------------------------------------------------
(***************************************************************************)
(* Part ck: the checker proper.  The AST is a heap of nodes (ids 1..15 are *)
(* the primitive type singletons); a is the typecheck_t state together     *)
(* with the heap.  A rule is an operator from state to state.              *)
(***************************************************************************)

NoVal == <<0, 0, 0, 0>>

\* a node with every field at its zero value
Node(kind) ==
  [kind |-> kind, flags |-> {}, nuse |-> 0, type |-> 0, name |-> "",
   ref |-> 0, op |-> "", left |-> 0, right |-> 0, expr |-> 0, init |-> 0,
   isthis |-> FALSE, ismut |-> FALSE, intval |-> NoVal,
   cond |-> 0, thenb |-> 0, elseb |-> 0, children |-> <<>>,
   elem |-> 0, len |-> 0, resolved |-> 0, fields |-> <<>>,
   params |-> <<>>, result |-> 0, body |-> 0, nsparent |-> 0,
   size |-> 0, align |-> 0, offset |-> 0, lenexpr |-> 0, typeid |-> <<>>,
   recv |-> 0, args |-> <<>>, templateparams |-> <<>>, templateparam |-> 0,
   value |-> 0, recvt |-> 0]

PrimNodes ==
  [i \in 1..15 |->
     [Node(BaseTypes[i].kind) EXCEPT !.flags = {"NF_CHECKED"},
                                     !.size = PrimSize(BaseTypes[i].kind),
                                     !.align = PrimSize(BaseTypes[i].kind)]]

LocalKinds == {"EXPR_FIELD", "EXPR_PARAM", "EXPR_LET", "EXPR_VAR"}
ExprKinds ==
  LocalKinds \cup
  {"EXPR_FUN", "EXPR_BLOCK", "EXPR_ID", "EXPR_PREFIXOP", "EXPR_BINOP",
   "EXPR_ASSIGN", "EXPR_DEREF", "EXPR_IF", "EXPR_RETURN", "EXPR_INTLIT",
   "EXPR_CALL", "EXPR_TYPECONS"}

nodekind_islocal(kind) == kind \in LocalKinds
nodekind_isexpr(kind) == kind \in ExprKinds
nodekind_istype(kind) ==
  kind \notin ExprKinds \cup {"STMT_TYPEDEF", "NODE_UNIT", "NODE_TPLPARAM", "none"}

\* scope_t: entries below len; a marker entry holds the enclosing base
ScopeMarker(b) == [n |-> 0, name |-> "", base |-> b]
ScopeDef(name, n) == [n |-> n, name |-> name, base |-> 0]
ScopeEmpty == [ents |-> <<>>, base |-> 0]
scope_len(s) == Len(s.ents)
scope_push(s) == [ents |-> Append(s.ents, ScopeMarker(s.base)), base |-> Len(s.ents)]
scope_pop(s) ==
  [ents |-> SubSeq(s.ents, 1, s.base), base |-> s.ents[s.base + 1].base]
scope_define(s, name, n) == [s EXCEPT !.ents = Append(@, ScopeDef(name, n))]
\* the innermost definition of name; maxdepth 0 looks in the current scope
\* only, any other maxdepth in every scope
scope_lookup(s, name, maxdepth) ==
  LET lo == IF maxdepth = 0 THEN s.base + 1 ELSE 0
      hits == {i \in (lo + 1)..Len(s.ents) :
                 s.ents[i].n # 0 /\ s.ents[i].name = name}
  IN IF hits = {} THEN 0
     ELSE s.ents[CHOOSE i \in hits : \A j \in hits : j <= i].n
scope_istoplevel(s) == s.base = 0

U32_MAX == -1

\* a diagnostic message: the format string and its arguments
Msg(fmt, args) == [fmt |-> fmt, args |-> args]

\* report_diag: one diagnostic; errcount counts those of kind error
report_diag(a, n, kind, msg) ==
  [a EXCEPT !.diags = Append(@, [kind |-> kind, msg |-> msg, node |-> n]),
            !.errcount = IF kind = "DIAG_ERR" THEN @ + 1 ELSE @]
compiler_errcount(a) == a.errcount

\* error (typecheck.c:459); latched keeps how many rules had run and how
\* many nodes were marked when reported_error was first set
error(a, n, msg) ==
  report_diag([a EXCEPT !.reported_error = TRUE,
                        !.latched = IF a.reported_error THEN @
                                    ELSE <<Len(a.ran), Len(a.marked)>>],
              n, "DIAG_ERR", msg)
warning(a, n, msg) == report_diag(a, n, "DIAG_WARN", msg)
help(a, n, msg) == report_diag(a, n, "DIAG_HELP", msg)
\* err_t: no error (0 in the source), out of memory, and another code that
\* ast_transform can return
ErrNone == "0"
ErrNoMem == "ErrNoMem"
ErrInvalid == "ErrInvalid"
noerror(a) == a.err = ErrNone /\ compiler_errcount(a) = 0

\* a defect seterr could have: the last error is kept
seterr_last(a, err) == [a EXCEPT !.err = err]
\* seterr (typecheck.c:414)
seterr(a, err) == IF a.err = ErrNone THEN [a EXCEPT !.err = err] ELSE a
\* fatals keeps the fatal errors in the order they occurred
Fatal(a, err) == [a EXCEPT !.fatals = Append(@, err)]
\* out_of_mem (typecheck.c:465)
out_of_mem(a) ==
  Fatal(seterr(error(a, 0, Msg("out of memory", <<>>)), ErrNoMem), ErrNoMem)

\* memory: the allocations of a pass are counted, and those whose number is
\* in failing fail
alloc(a) == [a EXCEPT !.allocs = @ + 1]
alloc_fails(a) == (a.allocs + 1) \in a.failing

AddFlags(a, n, fl) == [a EXCEPT !.nodes[n].flags = @ \cup fl]
DelFlags(a, n, fl) == [a EXCEPT !.nodes[n].flags = @ \ fl]
SetType(a, n, t) == [a EXCEPT !.nodes[n].type = t]

\* an assertion of the code that does not hold: what it says is kept; the
\* pass goes on as a build without assertions does
assertf(a, msg) == [a EXCEPT !.asserts = Append(@, msg)]

\* "*np = expr": the slot that held n holds m; a caller that handed in the
\* address of its slot reloads it
Replace(a, n, m) == [a EXCEPT !.repl = (n :> m) @@ @]
Reload(a, n) == IF n \in DOMAIN a.repl THEN a.repl[n] ELSE n
HasFlag(a, n, f) == f \in a.nodes[n].flags

\* a new node appended to the heap; its id is Len(a.nodes) + 1
NewId(a) == Len(a.nodes) + 1
mknode(a, node) == [a EXCEPT !.nodes = Append(@, node)]
ast_clone_node(a, n) == mknode(a, a.nodes[n])

RECURSIVE incuse(_, _)
incuse(a, n) ==
  LET a1 == [a EXCEPT !.nodes[n].nuse = @ + 1] IN
    IF a.nodes[n].kind = "EXPR_ID" /\ a.nodes[n].ref # 0
    THEN incuse(a1, a.nodes[n].ref) ELSE a1

\* typectx_push (typecheck.c:766): pushes counts the calls; those whose
\* number is in pushfail find no memory for the stack, and the expected type
\* is set all the same
typectx_push(a, t) ==
  IF (a.pushes + 1) \in a.pushfail
  THEN [out_of_mem(a) EXCEPT !.pushes = @ + 1, !.typectx = t]
  ELSE [a EXCEPT !.pushes = @ + 1, !.typectxstack = Append(@, a.typectx),
                 !.typectx = t]

\* typectx_pop (typecheck.c:776): on an empty stack the assertion fails, and
\* a build without assertions reads what lies before the array (wild)
typectx_pop(a) ==
  IF Len(a.typectxstack) = 0
  THEN [assertf(a, "a->typectxstack.len > 0") EXCEPT !.typectx = a.wild]
  ELSE [a EXCEPT !.typectx = a.typectxstack[Len(a.typectxstack)],
                 !.typectxstack = SubSeq(@, 1, Len(@) - 1)]

enter_scope(a) == [a EXCEPT !.scope = scope_push(@)]
leave_scope(a) == [a EXCEPT !.scope = scope_pop(@)]
enter_ns(a, n) == [a EXCEPT !.nspath = Append(@, n)]
leave_ns(a) == [a EXCEPT !.nspath = SubSeq(@, 1, Len(@) - 1)]

pkg_def_get(a, name) == IF name \in DOMAIN a.pkgdefs THEN a.pkgdefs[name] ELSE 0

\* lookup: the node and the state (the node found is marked used)
lookup(a, name) ==
  LET n == scope_lookup(a.scope, name, U32_MAX)
      m == IF n # 0 THEN n ELSE pkg_def_get(a, name)
  IN IF m = 0 THEN [a |-> a, n |-> 0]
     ELSE [a |-> incuse(IF n = 0 THEN AddFlags(a, m, {"NF_VIS_PKG"}) ELSE a, m),
           n |-> m]

define(a, name, n) ==
  IF name = "_" THEN a
  ELSE IF alloc_fails(a) THEN out_of_mem(alloc(a))
  ELSE [alloc(a) EXCEPT !.scope = scope_define(@, name, n)]

\* e, with the state x worked out first: the statements of a function run
\* in the order they are written
After(x, e) == IF x.errcount >= 0 THEN e ELSE x
\* the last of the states s, each worked out in turn
InOrder(s) == s[Len(s)]

----------------------------------------------------------------------------
\* The rules.  A rule on a type slot returns the state and the node the
\* slot holds afterwards.

RECURSIVE check(_, _, _), type(_, _), type1(_, _), exprp(_, _), local(_, _), TypeIdOf(_, _),
          TypeIdsOfNodes(_, _, _),
          structtype_loop(_, _, _, _, _), funtype1_loop(_, _, _), stmt(_, _),
          block_stmts(_, _, _, _), block_unused(_, _, _, _)

TR(a, t) == [a |-> a, t |-> t]

\* type(a, &n->f) for a type slot f of node n
CheckSlot(a, n, f) ==
  LET r == check("type", a, a.nodes[n][f]) IN [r.a EXCEPT !.nodes[n][f] = r.t]

\* the type ids of a sequence of locals, concatenated
RECURSIVE TypeIdsOf(_, _, _)
TypeIdsOf(h, locals, i) ==
  IF i > Len(locals) THEN <<>>
  ELSE TypeIdOf(h, h[locals[i]].type) \o TypeIdsOf(h, locals, i + 1)

\* the type ids of a sequence of types, concatenated
TypeIdsOfNodes(h, ts, i) ==
  IF i > Len(ts) THEN <<>>
  ELSE TypeIdOf(h, ts[i]) \o TypeIdsOfNodes(h, ts, i + 1)

\* the structural type id: the kind and the ids of the components (the id
\* cached on a node is used when there is one); a named struct is
\* identified by its name and its template parameters or arguments, a
\* resolved name by what it resolved to
TypeIdOf(h, t) ==
  LET N == h[t] IN
  IF N.typeid # <<>> THEN N.typeid
  ELSE CASE N.kind \in {"ptr", "ref", "mutref", "slice", "mutslice", "optional"} ->
              <<N.kind>> \o TypeIdOf(h, N.elem)
         [] N.kind = "array" -> <<"array", ToString(N.len)>> \o TypeIdOf(h, N.elem)
         [] N.kind = "fun" ->
              <<"fun", ToString(Len(N.params))>> \o TypeIdsOf(h, N.params, 1)
                \o TypeIdOf(h, N.result)
         [] N.kind = "struct" /\ N.name = "" ->
              <<"struct", ToString(Len(N.fields))>> \o TypeIdsOf(h, N.fields, 1)
         [] N.kind = "struct" ->
              <<"struct", N.name, ToString(Len(N.templateparams))>>
                \o TypeIdsOfNodes(h, N.templateparams, 1)
         [] N.kind = "template" ->
              <<"template", ToString(Len(N.args))>> \o TypeIdOf(h, N.recv)
                \o TypeIdsOfNodes(h, N.args, 1)
         [] N.kind = "unresolved" /\ N.resolved # 0 -> TypeIdOf(h, N.resolved)
         [] OTHER -> <<N.kind, N.name>>

\* a map from keys to nodes: the entries in the order they were added
MapEnt(key, val) == [key |-> key, val |-> val]
MapGet(m, key) ==
  LET hits == {i \in 1..Len(m) : m[i].key = key} IN
    IF hits = {} THEN 0 ELSE m[CHOOSE i \in hits : TRUE].val

\* typeid_intern: the id of t, cached on the node
typeid_intern(a, t) ==
  LET id == TypeIdOf(a.nodes, t) IN
    [a |-> [a EXCEPT !.nodes[t].typeid = id], id |-> id]

\* intern_usertype (typecheck.c:536): the slot ends up holding the node
\* registered for the type id; added tells whether t was registered now
intern_usertype(a, t) ==
  LET r == typeid_intern(a, t)
      p == MapGet(r.a.typeidmap, r.id)
  IN IF p # 0
     THEN [a |-> r.a, t |-> p, added |-> FALSE]
     ELSE [a |-> [r.a EXCEPT !.typeidmap = Append(@, MapEnt(r.id, t))], t |-> t,
           added |-> TRUE]

\* history of the pass: marked lists the nodes in the order their checked
\* flag went from clear to set, ran the nodes in the order a rule body was
\* entered for them
SetChecked(a, n) ==
  [a EXCEPT !.nodes[n].flags = @ \cup {"NF_CHECKED"},
            !.marked = IF "NF_CHECKED" \in a.nodes[n].flags THEN @ ELSE Append(@, n)]
Ran(a, n) == [a EXCEPT !.ran = Append(@, n)]
\* direct keeps the nodes whose rule was entered by check_local
RanDirect(a, n) == [a EXCEPT !.ran = Append(@, n), !.direct = Append(@, n)]

\* check_local (typecheck.c:1071)
check_local(a, n) ==
  IF "NF_CHECKED" \in a.nodes[n].flags THEN a
  ELSE check("local", RanDirect(SetChecked(a, n), n), n)

\* the field loop of structtype with the fields checked on the way
structtype_loop(a, st, i, size, align) ==
  IF i > Len(a.nodes[st].fields) THEN [a |-> a, size |-> size, align |-> align]
  ELSE
    LET f == a.nodes[st].fields[i]
        a1 == check_local(a, f)
        a2 == IF type_isowner(a1.nodes, a1.nodes[f].type)
              THEN AddFlags(a1, st, {"NF_SUBOWNERS"}) ELSE a1
        t == concrete_type(Compiler(a.intsize), a2.nodes, a2.nodes[f].type)
        off == ALIGN2(size, a2.nodes[t].align, a.zero)
    IN After(a1,
         check("structtype_loop", [a2 EXCEPT !.nodes[f].offset = off], <<st, i + 1, off + a2.nodes[t].size, MAX(align, a2.nodes[t].align)>>))

\* structtype (typecheck.c:1090)
structtype(a, st) ==
  LET a0 == IF a.nodes[st].nsparent = 0
            THEN [a EXCEPT !.nodes[st].nsparent = a.nspath[Len(a.nspath)]]
            ELSE a
      l == check("structtype_loop", enter_ns(a0, st), <<st, 1, 0, 0>>)
      a1 == [leave_ns(l.a) EXCEPT
               !.nodes[st].align = l.align,
               !.nodes[st].size = ALIGN2(l.size, l.align, a.zero)]
      r == intern_usertype(a1, st)
  IN After(l.a,
       IF ~r.added THEN TR(r.a, r.t)
       ELSE IF "NF_SUBOWNERS" \notin r.a.nodes[st].flags
         THEN IF alloc_fails(r.a) THEN TR(out_of_mem(alloc(r.a)), r.t)
              ELSE TR([alloc(r.a) EXCEPT !.postanalyze = (r.t :> 0) @@ @], r.t)
         ELSE TR(r.a, r.t))

\* comptime_eval_uint on the length expression: the literal's value
comptime_eval_uint(a, e) == a.nodes[e].intval[4]

\* arraytype_calc_size (typecheck.c:1151)
arraytype_calc_size(a, at) ==
  LET c == Compiler(a.intsize) IN
  IF a.nodes[at].len = 0
  THEN [a EXCEPT !.nodes[at].align = MAX(c.ptrsize, c.intsize),
                 !.nodes[at].size = c.intsize * 2 + c.ptrsize]
  ELSE [a EXCEPT !.nodes[at].align = a.nodes[a.nodes[at].elem].align,
                 !.nodes[at].size = a.nodes[at].len * a.nodes[a.nodes[at].elem].size]

\* arraytype (typecheck.c:1169)
arraytype(a, at) ==
  LET a1 == CheckSlot(a, at, "elem")
      a2 == IF type_isowner(a1.nodes, a1.nodes[at].elem)
            THEN AddFlags(a1, at, {"NF_SUBOWNERS"}) ELSE a1
      le == a2.nodes[at].lenexpr
      a3 == IF le = 0 THEN a2
            ELSE typectx_pop(check("exprp", typectx_push(a2, PrimId("uint")), le))
      fin(b) == LET r == intern_usertype(arraytype_calc_size(b, at), at)
                IN TR(r.a, r.t)
  IN IF a1.errcount < 0 THEN TR(a1, at)
     ELSE IF le = 0 THEN fin(a3)
     ELSE IF compiler_errcount(a3) > 0 THEN TR(a3, at)
     ELSE LET a4 == [a3 EXCEPT !.nodes[at].len = comptime_eval_uint(a3, le)]
          IN fin(IF a4.nodes[at].len = 0
                 THEN error(a4, at, Msg("zero length array", <<>>))
                 ELSE a4)

\* funtype1 (typecheck.c:1209)
funtype1_loop(a, ft, i) ==
  IF i > Len(a.nodes[ft].params) THEN a
  ELSE LET a1 == check("check_local", a, a.nodes[ft].params[i])
       IN After(a1, check("funtype1_loop", a1, <<ft, i + 1>>))

funtype1(a, ft, thistype) ==
  LET a1 == check("funtype1_loop", typectx_push(a, thistype), <<ft, 1>>)
      a2 == typectx_pop(CheckSlot(a1, ft, "result"))
      r == intern_usertype(a2, ft)
  IN After(a1, After(a2, TR(r.a, r.t)))

funtype(a, ft) == check("funtype1", a, <<ft, PrimId("unknown")>>)

\* aliastype (typecheck.c:3501)
aliastype(a, t) ==
  LET a1 == CheckSlot(a, t, "elem") IN
    IF a1.nodes[t].elem = PrimId("void")
    THEN TR(error(a1, t, Msg("cannot alias type void", <<>>)), t)
    ELSE
      LET a2 == IF type_isowner(a1.nodes, a1.nodes[t].elem)
                THEN AddFlags(a1, t, {"NF_SUBOWNERS"}) ELSE a1
      IN TR(IF a2.nodes[t].nsparent = 0
            THEN [a2 EXCEPT !.nodes[t].nsparent = a2.nspath[Len(a2.nspath)]]
            ELSE a2, t)

\* opttype (typecheck.c:3526)
opttype(a, t) == TR(CheckSlot(a, t, "elem"), t)

\* check_typedep: FALSE when the alias t reaches itself through aliases
RECURSIVE AliasReaches(_, _, _, _)
AliasReaches(h, t, goal, fuel) ==
  /\ fuel > 0 /\ t # 0 /\ h[t].kind = "alias"
  /\ (h[t].elem = goal \/ AliasReaches(h, h[t].elem, goal, fuel - 1))
check_typedep(h, t) == ~AliasReaches(h, t, t, Len(h))

\* the diagnostic check_typedep reports for the cycle it finds
CycleMsg == "type alias cycle"
check_typedep_report(a, t) == report_diag(a, t, "DIAG_ERR", Msg(CycleMsg, <<>>))

\* the heap once "*tp = t" has replaced the unresolved node u in its slot
\* (typecheck.c:3451); the parser makes a node for each use of a name, so
\* one slot holds u
SlotResolved(h, u, t) ==
  [m \in DOMAIN h |->
     IF h[m].kind = "alias" /\ h[m].elem = u THEN [h[m] EXCEPT !.elem = t] ELSE h[m]]

\* a defect the cut could have: the referent becomes void
break_cycle_void(a, t) == [a EXCEPT !.nodes[t].elem = PrimId("void")]

\* "((aliastype_t*)t)->elem = type_unknown" (typecheck.c:3457)
break_cycle(a, t) == [a EXCEPT !.nodes[t].elem = PrimId("unknown")]

\* nodekind_fmt: the name of a kind in diagnostics
nodekind_fmt(kind) ==
  CASE kind = "EXPR_LET" -> "let"
    [] kind = "EXPR_VAR" -> "var"
    [] OTHER -> kind

\* fmtkind (typecheck.c:68)
fmtkind(a, n) ==
  LET m == IF a.nodes[n].kind = "EXPR_ID" /\ a.nodes[n].ref # 0
           THEN a.nodes[n].ref ELSE n
  IN IF a.nodes[m].kind = "EXPR_BINOP" /\
        a.nodes[m].op \in {"==", "!=", "<", ">", "<=", ">="}
     THEN "comparison" ELSE nodekind_fmt(a.nodes[m].kind)

\* unresolvedtype (typecheck.c:3436)
unresolvedtype(a, u) ==
  IF a.nodes[u].resolved # 0 THEN TR(a, a.nodes[u].resolved)
  ELSE
    LET name == a.nodes[u].name
        l == lookup(a, name)
    IN
    IF l.n # 0 /\ nodekind_istype(l.a.nodes[l.n].kind)
    THEN
      LET r == check("type", l.a, l.n)
          t == r.t
          a1 == [r.a EXCEPT !.nodes[t].nuse = @ + r.a.nodes[u].nuse,
                            !.nodes[u].resolved = t]
          cut == break_cycle(check_typedep_report(a1, t), t)
      IN After(r.a,
           IF a1.nodes[t].kind = "alias" /\
              ~check_typedep(SlotResolved(a1.nodes, u, t), t)
           THEN TR(cut, IF a1.nodes[t].elem = u THEN cut.nodes[t].elem ELSE t)
           ELSE TR(a1, t))
    ELSE
      LET a1 == IF l.n = 0
                THEN error(l.a, u, Msg("unknown type \"%s\"", <<name>>))
                ELSE help(error(l.a, u, Msg("%s is not a type (it's a %s)",
                                            <<name, fmtkind(l.a, l.n)>>)),
                          l.n, Msg("%s defined here", <<name>>))
      IN TR([a1 EXCEPT !.scope = scope_define(@, name, u)], u)


----------------------------------------------------------------------------
\* Templates

\* check_template (typecheck.c:3532): the defaults of the parameters
RECURSIVE check_template(_, _, _)
check_template(a, t, i) ==
  IF i > Len(a.nodes[t].templateparams) THEN a
  ELSE
    LET tparam == a.nodes[t].templateparams[i]
        init == a.nodes[tparam].init
        a1 == IF init = 0 THEN a
              ELSE IF nodekind_istype(a.nodes[init].kind)
                   THEN CheckSlot(a, tparam, "init")
                   ELSE check("exprp", a, init)
    IN After(a1, check("check_template", a1, <<t, i + 1>>))

\* the slots of a node a transformation of the AST visits, in order
TransformSlots(kind) ==
  CASE kind \in {"EXPR_FIELD", "EXPR_PARAM", "EXPR_VAR", "EXPR_LET"} ->
         <<"type", "init">>
    [] kind \in {"ptr", "ref", "mutref", "slice", "mutslice", "optional", "alias"} ->
         <<"elem">>
    [] kind = "array" -> <<"elem", "lenexpr">>
    [] kind = "struct" -> <<"fields">>
    [] kind = "fun" -> <<"params", "result">>
    [] kind = "template" -> <<"recv", "args">>
    [] OTHER -> <<>>
\* the slots that hold a list of nodes
ListSlots == {"fields", "params", "args"}

\* instancectx_t (typecheck.c:3071), and with it the nodes the transformation
\* is inside of
instancectx_t(paramv, args, templatenest) ==
  [paramv |-> paramv, args |-> args, templatenest |-> templatenest, visiting |-> {}]

RECURSIVE instantiate_trfn(_, _, _), transform_list(_, _, _, _)

\* the nodes ns[i..] transformed in turn: the state and the nodes they became
transform_list(a, ns, i, ctx) ==
  IF i > Len(ns) THEN [a |-> a, v |-> <<>>]
  ELSE LET r == IF ns[i] \in ctx.visiting THEN [a |-> a, n |-> ns[i]]
                ELSE check("instantiate_trfn", a, <<ns[i], ctx>>)
           rest == check("transform_list", r.a, <<ns, i + 1, ctx>>)
       IN After(r.a, [a |-> rest.a, v |-> <<r.n>> \o rest.v])

\* what is in the slot f of a node transformed: the state and what the slot
\* holds afterwards; a reference back to a node the transformation is inside
\* of is kept
transform_slot(a, v, f, ctx) ==
  IF f \in ListSlots THEN transform_list(a, v, 1, ctx)
  ELSE IF v = 0 \/ v \in ctx.visiting THEN [a |-> a, v |-> v]
  ELSE LET r == check("instantiate_trfn", a, <<v, ctx>>) IN [a |-> r.a, v |-> r.n]

\* ast_transform_children: n when every child came back as it was, else a
\* new node with the new children (a node has at most two slots)
ast_transform_children(a, n, ctx) ==
  LET N == a.nodes[n]
      slots == TransformSlots(N.kind)
      inside == [ctx EXCEPT !.visiting = @ \cup {n}]
      r1 == transform_slot(a, N[slots[1]], slots[1], inside)
      r2 == transform_slot(r1.a, N[slots[2]], slots[2], inside)
  IN CASE Len(slots) = 0 -> [a |-> a, n |-> n]
       [] Len(slots) = 1 ->
            IF r1.v = N[slots[1]] THEN [a |-> r1.a, n |-> n]
            ELSE [a |-> mknode(r1.a, [N EXCEPT ![slots[1]] = r1.v]),
                  n |-> NewId(r1.a)]
       [] Len(slots) = 2 ->
            IF r1.v = N[slots[1]] /\ r2.v = N[slots[2]] THEN [a |-> r2.a, n |-> n]
            ELSE [a |-> mknode(r2.a, [N EXCEPT ![slots[1]] = r1.v,
                                               ![slots[2]] = r2.v]),
                  n |-> NewId(r2.a)]

\* instantiate_trfn (typecheck.c:3083): the state and the node n becomes
instantiate_trfn(a, n, ctx) ==
  LET isph == a.nodes[n].kind = "placeholder"
      hits == {i \in 1..Len(ctx.args) : ctx.paramv[i] = a.nodes[n].templateparam}
  IN
  IF isph /\ hits = {} THEN [a |-> a, n |-> n]
  ELSE
    LET m == IF isph THEN ctx.args[CHOOSE i \in hits : \A j \in hits : i <= j]
             ELSE n
        nest == ctx.templatenest +
                  (IF "NF_TEMPLATE" \in a.nodes[m].flags THEN 1 ELSE 0)
        r == ast_transform_children(a, m, [ctx EXCEPT !.templatenest = nest])
        M == r.a.nodes[r.n]
        a1 == IF ctx.templatenest > 0 /\ "NF_TEMPLATEI" \in M.flags
              THEN [r.a EXCEPT !.nodes[r.n].typeid = <<>>] ELSE r.a
        a2 == IF ~nodekind_isprimtype(M.kind) /\ M.kind # "placeholder"
              THEN DelFlags(a1, r.n, {"NF_CHECKED", "NF_UNKNOWN"}) ELSE a1
    IN IF r.n = n THEN [a |-> r.a, n |-> n] ELSE [a |-> a2, n |-> r.n]

\* ast_transform: the transformation applied to the root
ast_transform(a, root, ctx) == check("instantiate_trfn", a, <<root, ctx>>)

\* templateimap_mkkey (typecheck.c:3161)
templateimap_mkkey(a, template, template_args) ==
  [template |-> template, ids |-> TypeIdsOfNodes(a.nodes, template_args, 1)]

\* templateimap_add (typecheck.c:3173)
templateimap_add(a, template, instance) ==
  [a EXCEPT !.templateimap =
     Append(@, MapEnt(templateimap_mkkey(a, template,
                                         a.nodes[instance].templateparams),
                      instance))]

templateimap_lookup_miss(a, template, template_args) == 0

\* templateimap_lookup (typecheck.c:3202)
templateimap_lookup(a, template, template_args) ==
  MapGet(a.templateimap, templateimap_mkkey(a, template, template_args))

\* the defaults of the parameters i.. of a template
RECURSIVE ParamInits(_, _, _)
ParamInits(h, params, i) ==
  IF i > Len(params) THEN <<>>
  ELSE <<h[params[i]].init>> \o ParamInits(h, params, i + 1)

\* the stack: instantiations nested deeper than MaxInstDepth overflow it
MaxInstDepth == 1
\* type on a new instance, which is one instantiation deeper
type_instance(a, instance) ==
  LET r == check("type", [a EXCEPT !.instdepth = @ + 1], instance)
  IN [r EXCEPT !.a.instdepth = @ - 1]

\* a defect instantiate_templatetype could have: the instance is registered
\* when it has been checked
type_then_templateimap_add(a, template, instance) ==
  LET r == type_instance(a, instance)
  IN After(r.a, TR(templateimap_add(r.a, template, instance), r.t))
\* instantiate_templatetype (typecheck.c:3321): "register instance (before
\* checking, in case it refers to itself)", then "typecheck the instance"
templateimap_add_then_type(a, template, instance) ==
  type_instance(templateimap_add(a, template, instance), instance)

\* instantiate_templatetype when ast_transform returns an error
\* (typecheck.c:3297)
ast_transform_failed(a) ==
  Fatal(seterr(error(a, 0, Msg("%s", <<a.transform_err>>)), a.transform_err),
        a.transform_err)

\* the history of the expansions: the type nodes an expansion made (the
\* nodes from first on), each with the type id and the flags it carries when
\* the expansion hands the instance to the checker
Expanded(a, first) ==
  [a EXCEPT !.expanded = @ \cup
     {[node |-> m, kind |-> a.nodes[m].kind, typeid |-> a.nodes[m].typeid,
       flags |-> a.nodes[m].flags \cap {"NF_CHECKED", "NF_UNKNOWN"}] :
        m \in {k \in first..Len(a.nodes) : nodekind_istype(a.nodes[k].kind)}}]

\* instantiate_templatetype (typecheck.c:3233)
instantiate_templatetype(a, tt) ==
  LET template == a.nodes[tt].recv
      paramv == a.nodes[template].templateparams
      targs == a.nodes[tt].args
      args == IF Len(targs) = Len(paramv) THEN targs
              ELSE targs \o ParamInits(a.nodes, paramv, Len(targs) + 1)
      existing == templateimap_lookup(a, template, args)
  IN
  IF existing # 0 THEN TR(a, existing)
  ELSE IF a.instdepth >= MaxInstDepth THEN TR([a EXCEPT !.overflow = TRUE], tt)
  ELSE IF alloc_fails(a) THEN TR(ast_transform_failed(alloc(a)), tt)
  ELSE
    LET x == ast_transform(alloc(a), template, instancectx_t(paramv, args, a.templatenest))
        c == IF x.n = template
             THEN [a |-> ast_clone_node(x.a, template), n |-> NewId(x.a)]
             ELSE x
        instance == c.n
        a0 == [c.a EXCEPT
                 !.nodes[instance].flags = (@ \ {"NF_TEMPLATE"}) \cup {"NF_TEMPLATEI"},
                 !.nodes[instance].templateparams = args,
                 !.nodes[instance].typeid = <<>>]
        a1 == Expanded(a0, NewId(a))
    IN After(x.a, templateimap_add_then_type(a1, template, instance))

\* the arguments of a use of a template checked in turn (typecheck.c:3384);
\* the argument is checked through a copy of the slot: the slot keeps its node
RECURSIVE templatetype_args(_, _, _)
templatetype_args(a, tt, i) ==
  IF i > Len(a.nodes[tt].args) THEN a
  ELSE
    LET n == a.nodes[tt].args[i]
        a1 == IF "NF_CHECKED" \in a.nodes[n].flags \/ a.nodes[n].kind = "placeholder"
              THEN a
              ELSE IF nodekind_istype(a.nodes[n].kind) THEN check("type", a, n).a
              ELSE check("exprp", a, n)
    IN After(a1, check("templatetype_args", a1, <<tt, i + 1>>))

\* templatetype (typecheck.c:3343), as _type runs it
templatetype_rule(a, tt) ==
  LET a1 == CheckSlot(a, tt, "recv")
      template == a1.nodes[tt].recv
      a2 == check("type", a1, template).a
      paramv == a2.nodes[template].templateparams
      ntotal == Len(paramv)
      nrequired == Cardinality({i \in 1..ntotal : a2.nodes[paramv[i]].init = 0})
      nargs == Len(a2.nodes[tt].args)
      a3 == error(a2, tt,
                  Msg("%s template parameters; want%s %u",
                      <<IF nargs > ntotal THEN "too many" ELSE "not enough",
                        IF nrequired < ntotal THEN " at least" ELSE "",
                        ToString(nrequired)>>))
      a5 == check("templatetype_args", a2, <<tt, 1>>)
  IN After(a2,
     IF nrequired # ntotal /\ compiler_errcount(a2) > 0 THEN TR(a2, tt)
     ELSE IF nargs < nrequired \/ nargs > ntotal
       THEN TR(IF ntotal > 0
               THEN help(a3, paramv[1],
                         Msg("template parameter%s defined here",
                             <<IF ntotal = 1 THEN "" ELSE "s">>))
               ELSE a3, tt)
     ELSE After(a5,
       IF ~noerror(a5) THEN TR(a5, tt)
       ELSE IF a5.templatenest = 0 THEN instantiate_templatetype(a5, tt)
       ELSE TR(a5, tt)))

\* the history of the uses of templates outside of templates: the use, the
\* template, the type ids of the arguments, the node the use became (0: it
\* stayed as it was) and the errors counted when its check returned
templatetype(a, tt) ==
  LET r == templatetype_rule(a, tt) IN
    IF a.templatenest # 0 THEN r
    ELSE TR([r.a EXCEPT !.uses =
               Append(@, [tt |-> tt, template |-> r.a.nodes[tt].recv,
                          ids |-> TypeIdsOfNodes(r.a.nodes, r.a.nodes[tt].args, 1),
                          inst |-> IF r.t = tt THEN 0 ELSE r.t,
                          errs |-> compiler_errcount(r.a)])],
            r.t)

\* placeholdertype (typecheck.c:3425)
placeholdertype(a, t) == TR(a, t)

\* _type (typecheck.c:3554)
type1(a, t) ==
  IF "NF_CHECKED" \in a.nodes[t].flags THEN TR(a, t)
  ELSE
    LET a0 == Ran(SetChecked(a, t), t)
        a1 == IF "NF_TEMPLATE" \in a0.nodes[t].flags
              THEN check("check_template", [a0 EXCEPT !.templatenest = @ + 1], <<t, 1>>)
              ELSE a0
        k == a1.nodes[t].kind
        r == CASE k = "array" -> check("arraytype", a1, t)
               [] k = "fun" -> check("funtype", a1, t)
               [] k \in {"ptr", "ref", "mutref", "slice", "mutslice"} ->
                    TR(CheckSlot(a1, t, "elem"), t)
               [] k = "optional" -> opttype(a1, t)
               [] k = "struct" -> check("structtype", a1, t)
               [] k = "alias" -> check("aliastype", a1, t)
               [] k = "template" -> check("templatetype", a1, t)
               [] k = "placeholder" -> placeholdertype(a1, t)
               [] k = "unresolved" -> check("unresolvedtype", a1, t)
    IN IF "NF_TEMPLATE" \in r.a.nodes[t].flags
       THEN TR([r.a EXCEPT !.templatenest = @ - 1], r.t) ELSE r

\* type (typecheck.c:858)
type(a, t) ==
  IF t # PrimId("unknown") /\ "NF_CHECKED" \notin a.nodes[t].flags
  THEN type1(a, t) ELSE TR(a, t)

----------------------------------------------------------------------------
\* Expressions

\* fmtnode: a node in a diagnostic is named by its id
fmtnode(n) == ToString(n)
op_fmt(op) == op

type_isreflike(h, t) == h[t].kind \in {"ref", "mutref", "slice", "mutslice"}

\* transfer_nuse_to_wrapper (typecheck.c:482)
transfer_nuse_to_wrapper(a, wrapper, wrapee) ==
  [a EXCEPT !.nodes[wrapper].nuse = a.nodes[wrapee].nuse,
            !.nodes[wrapee].nuse = IF @ > 0 THEN @ - 1 ELSE 0]

\* mkreftype (typecheck.c:490): the state and the new type
mkreftype(a, elem, ismut) ==
  LET t == NewId(a)
      a1 == mknode(a, [Node(IF ismut THEN "mutref" ELSE "ref") EXCEPT
                         !.flags = a.nodes[elem].flags \cap {"NF_CHECKED"},
                         !.size = Compiler(a.intsize).ptrsize,
                         !.align = Compiler(a.intsize).ptrsize,
                         !.elem = elem])
  IN [a |-> transfer_nuse_to_wrapper(a1, t, elem), n |-> t]

\* mkderef (typecheck.c:501): the state and the new expression
mkderef(a, refval) ==
  LET n == NewId(a)
      rt == a.nodes[refval].type
      a1 == mknode(a, [Node("EXPR_DEREF") EXCEPT
                         !.op = "*",
                         !.flags = a.nodes[refval].flags \cap {"NF_RVALUE", "NF_CHECKED"},
                         !.expr = refval,
                         !.type = IF a.nodes[rt].kind \in {"ptr", "ref", "mutref"}
                                  THEN a.nodes[rt].elem ELSE PrimId("void")])
  IN [a |-> transfer_nuse_to_wrapper(a1, n, refval), n |-> n]

\* a defect mkretexpr could have: the return node is left without a type
mkretexpr_void(a, value) ==
  LET n == NewId(a)
      a1 == mknode(a, [Node("EXPR_RETURN") EXCEPT
                         !.flags = a.nodes[value].flags \cap {"NF_CHECKED"},
                         !.value = value,
                         !.type = PrimId("void")])
  IN [a |-> transfer_nuse_to_wrapper(AddFlags(a1, value, {"NF_RVALUE"}), n, value),
      n |-> n]

\* mkretexpr (typecheck.c:522): the state and the new expression
mkretexpr(a, value) ==
  LET n == NewId(a)
      a1 == mknode(a, [Node("EXPR_RETURN") EXCEPT
                         !.flags = a.nodes[value].flags \cap {"NF_CHECKED"},
                         !.value = value,
                         !.type = a.nodes[value].type])
  IN [a |-> transfer_nuse_to_wrapper(AddFlags(a1, value, {"NF_RVALUE"}), n, value),
      n |-> n]

\* implicit_rvalue_deref (typecheck.c:864): the state and the node the slot
\* holds afterwards
implicit_rvalue_deref(a, ltype, rval) ==
  LET lt == unwrap_alias(a.nodes, ltype)
      rt == unwrap_alias(a.nodes, a.nodes[rval].type)
  IN IF ~type_isreflike(a.nodes, lt) /\ type_isreflike(a.nodes, rt)
     THEN mkderef(a, rval) ELSE [a |-> a, n |-> rval]

\* error_unassignable_type (typecheck.c:727)
error_unassignable_type(a, dst, src) ==
  LET origin == IF nodekind_islocal(a.nodes[dst].kind) THEN a.nodes[dst].init
                ELSE dst
      S == a.nodes[src]
      srctype == IF "NF_NARROWED" \in a.nodes[dst].flags /\
                    a.nodes[S.type].kind = "optional"
                 THEN a.nodes[S.type].elem ELSE S.type
  IN IF "NF_NARROWED" \in S.flags \/
        (S.kind = "EXPR_ID" /\ S.ref # 0 /\ "NF_NARROWED" \in a.nodes[S.ref].flags)
     THEN error(a, src, Msg("optional value %s is empty here", <<fmtnode(src)>>))
     ELSE error(a, origin,
                Msg("cannot assign value of type %s to %s of type %s",
                    <<fmtnode(srctype), fmtkind(a, dst), fmtnode(a.nodes[dst].type)>>))

\* error_incompatible_types (typecheck.c:718)
error_incompatible_types(a, origin, x, y) ==
  error(a, origin, Msg("incompatible types %s and %s%s%s",
                       <<fmtnode(x), fmtnode(y), " in ", fmtkind(a, origin)>>))

\* this_type (typecheck.c:986)
this_type(a, n) ==
  LET recvt == a.nodes[n].type
      R == a.nodes[recvt]
      c == Compiler(a.intsize)
      byvalue == ~a.nodes[n].ismut /\
                 (\/ nodekind_isprimtype(R.kind)
                  \/ (R.kind = "struct" /\ R.align <= c.ptrsize /\
                      R.size <= c.ptrsize * 2))
  IN IF byvalue THEN a
     ELSE LET r == mkreftype(a, recvt, a.nodes[n].ismut)
          IN SetType(r.a, n, r.n)

\* the initializer part of local (typecheck.c:1011-1035)
local_init(a, n) ==
  LET b0 == typectx_pop(check("exprp", typectx_push(a, a.nodes[n].type), a.nodes[n].init))
      \* "exprp(a, &n->init)": the slot is handed in
      b == [b0 EXCEPT !.nodes[n].init = Reload(b0, a.nodes[n].init)]
      init == b.nodes[n].init
      nty == b.nodes[n].type
      rtype0 == b.nodes[init].type
      rtype == IF "NF_NARROWED" \in b.nodes[n].flags /\ nty # PrimId("void")
               THEN b.nodes[rtype0].elem ELSE rtype0
  IN IF nty = PrimId("unknown") \/ b.nodes[nty].kind = "unresolved"
     THEN SetType(b, n, rtype0)
     ELSE IF ~type_isassignable(Compiler(b.intsize), b.nodes, nty, rtype)
     THEN error_unassignable_type(b, n, init)
     ELSE LET d == implicit_rvalue_deref(b, nty, init)
          IN [d.a EXCEPT !.nodes[n].init = d.n]

\* local (typecheck.c:1006)
local(a, n) ==
  LET a1 == CheckSlot(a, n, "type")
      a2 == IF a1.nodes[n].init # 0 THEN check("local_init", a1, n) ELSE a1
      a3 == IF a2.nodes[n].isthis THEN this_type(a2, n) ELSE a2
      a4 == IF a3.nodes[n].type \in {PrimId("void"), PrimId("unknown")} /\
               "NF_NARROWED" \notin a3.nodes[n].flags
            THEN error(a3, n, Msg("cannot define %s of type void", <<fmtkind(a3, n)>>))
            ELSE a3
  IN After(a1, After(a2,
       IF a4.nodes[n].name = "_" /\ type_isowner(a4.nodes, a4.nodes[n].type)
       THEN [a4 EXCEPT !.nodes[n].name = "__co_var" \o ToString(n)]
       ELSE a4))

\* local_var (typecheck.c:1060)
local_var(a, n) ==
  LET need_def == "NF_UNKNOWN" \in a.nodes[n].flags \/
                  a.nodes[n].type = PrimId("unknown")
      a1 == check("local", a, n)
  IN After(a1, IF need_def \/ scope_istoplevel(a1.scope)
               THEN define(a1, a1.nodes[n].name, n) ELSE a1)

\* unknown_identifier (typecheck.c:1886), without the did-you-mean hints
unknown_identifier(a, n) ==
  error(a, n, Msg("unknown identifier \"%s\"", <<a.nodes[n].name>>))

\* missed keeps, for each identifier that lookup did not find, what its name
\* is defined as in the current scope when unknown_identifier has returned
Missed(a, n) ==
  [a EXCEPT !.missed =
     Append(@, [node |-> n, def |-> scope_lookup(a.scope, a.nodes[n].name, 0)])]

\* idexpr (typecheck.c:1923)
idexpr(a, n) ==
  LET l == IF a.nodes[n].ref = 0 \/ "NF_UNKNOWN" \in a.nodes[n].flags
           THEN lookup(a, a.nodes[n].name)
           ELSE [a |-> a, n |-> a.nodes[n].ref]
      a1 == [l.a EXCEPT !.nodes[n].ref = l.n]
  IN IF l.n = 0 THEN Missed(unknown_identifier(a1, n), n)
     ELSE
       LET a2 == check("exprp", a1, l.n) IN
         After(a2,
         IF nodekind_istype(a2.nodes[l.n].kind)
         THEN CheckSlot(SetType(a2, n, l.n), n, "type")
         ELSE IF "NF_NARROWED" \in a2.nodes[n].flags /\
                 a2.nodes[a2.nodes[n].type].kind = "optional"
         THEN a2
         ELSE SetType(a2, n, a2.nodes[l.n].type))

\* intlit (typecheck.c:2324) applied to the literal node n
intlit_node(a, n) ==
  LET o == intlit(Compiler(a.intsize), a.nodes, a.nodes[n].type,
                  a.nodes[n].intval, a.typectx)
      a1 == IF o.errtype # 0
            THEN error(a, n, Msg("integer constant overflows %s", <<fmtnode(o.errtype)>>))
            ELSE a
  IN IF a.nodes[n].type # PrimId("unknown") THEN a ELSE SetType(a1, n, o.type)

\* check_retval (typecheck.c:1235): the state, the type of the value and
\* the node the value slot holds afterwards (n0 = 0: no value)
check_retval(a, origin, n0) ==
  LET void == PrimId("void")
      unkn == PrimId("unknown")
      fname == a.nodes[a.fun].name
      a1 == IF n0 # 0 THEN check("exprp", incuse(a, n0), n0) ELSE a
      \* "exprp(a, np); expr_t* n = *np;"
      n1 == IF n0 # 0 THEN Reload(a1, n0) ELSE 0
      t == IF n0 # 0 THEN a1.nodes[n1].type ELSE void
      res == a1.nodes[a1.nodes[a1.fun].type].result
      e1 == IF t = void THEN error(a1, origin, Msg("missing return value", <<>>))
            ELSE IF t # unkn \/ ~a1.reported_error
            THEN error(a1, origin,
                       Msg("invalid function result type: %s", <<fmtnode(t)>>))
            ELSE a1
      a2 == IF type_isassignable(Compiler(a1.intsize), a1.nodes, res, t) THEN a1
            ELSE IF res = void
            THEN error(a1, origin,
                       Msg("function %s%sdoes not return a value", <<fname, " ">>))
            ELSE IF t # unkn \/ ~e1.reported_error
            THEN help(e1, a1.fun,
                      Msg("function %s%sreturns %s", <<fname, " ", fmtnode(res)>>))
            ELSE e1
  IN IF n0 = 0 THEN [a |-> a2, t |-> void, n |-> 0]
     ELSE LET d == implicit_rvalue_deref(a2, res, n1)
          IN [a |-> d.a, t |-> d.a.nodes[d.n].type, n |-> d.n]

\* retexpr (typecheck.c:1954)
retexpr(a, n) ==
  IF a.fun = 0 THEN error(a, n, Msg("return outside of function", <<>>))
  ELSE LET r == check("check_retval", a, <<n, a.nodes[n].value>>)
       IN [r.a EXCEPT !.nodes[n].value = r.n, !.nodes[n].type = r.t]

\* a defect check_assign_to_id could have: a let accepted like a var
check_assign_to_id_let(a, id) ==
  LET target == a.nodes[id].ref
      name == a.nodes[id].name
  IN IF target = 0 THEN a
     ELSE CASE a.nodes[target].kind = "EXPR_ID" ->
                 error(a, id, Msg("cannot assign to type-narrowed binding \"%s\"",
                                  <<name>>))
            [] a.nodes[target].kind \in {"EXPR_VAR", "EXPR_LET"} -> a
            [] a.nodes[target].kind = "EXPR_PARAM" /\ ~a.nodes[target].isthis -> a
            [] OTHER ->
                 error(a, id, Msg("cannot assign to %s \"%s\"",
                                  <<fmtkind(a, target), name>>))

\* check_assign_to_id (typecheck.c:1988)
check_assign_to_id(a, id) ==
  LET target == a.nodes[id].ref
      name == a.nodes[id].name
  IN IF target = 0 THEN a
     ELSE CASE a.nodes[target].kind = "EXPR_ID" ->
                 error(a, id, Msg("cannot assign to type-narrowed binding \"%s\"",
                                  <<name>>))
            [] a.nodes[target].kind = "EXPR_VAR" -> a
            [] a.nodes[target].kind = "EXPR_PARAM" /\ ~a.nodes[target].isthis -> a
            [] OTHER ->
                 error(a, id, Msg("cannot assign to %s \"%s\"",
                                  <<fmtkind(a, target), name>>))

\* check_assign (typecheck.c:2011)
check_assign(a, target) ==
  LET k == a.nodes[target].kind
      t == a.nodes[a.nodes[target].expr].type
      other == error(a, target, Msg("cannot assign to %s", <<fmtkind(a, target)>>))
  IN CASE k = "EXPR_ID" -> check_assign_to_id(a, target)
       [] k = "EXPR_DEREF" ->
            CASE a.nodes[t].kind = "ref" ->
                   error(a, target,
                         Msg("cannot assign via immutable reference of type %s",
                             <<fmtnode(t)>>))
              [] a.nodes[t].kind \in {"mutref", "ptr"} -> a
              [] OTHER -> other
       [] OTHER -> other

\* assign (typecheck.c:2035)
assign(a, n) ==
  LET L == a.nodes[n].left
      R == a.nodes[n].right
      c == Compiler(a.intsize)
  IN
  IF a.nodes[L].kind = "EXPR_ID" /\ a.nodes[L].name = "_"
  THEN LET a1 == typectx_pop(incuse(check("exprp", typectx_push(a, a.nodes[L].type), R), R))
       IN SetType(a1, n, a1.nodes[R].type)
  ELSE
    LET a1 == incuse(check("exprp", a, L), L)
        a2 == typectx_pop(incuse(check("exprp", typectx_push(a1, a1.nodes[L].type), R), R))
        a3 == SetType(a2, n, a2.nodes[L].type)
        a4 == IF type_isassignable(c, a3.nodes, a3.nodes[L].type, a3.nodes[R].type)
              THEN a3 ELSE error_unassignable_type(a3, n, R)
    IN After(a1, After(a2, check_assign(a4, L)))

\* the cases of the switches of type_has_binop that return true
\* (typecheck.c:2069-2073, 2087-2115, 2123-2141, 2148-2150, 2158-2160)
BoolOps == {"&&", "||", "==", "!=", "="}
IntOps ==
  {"+", "-", "*", "/", "%", "&", "|", "^", "<<", ">>", "&&", "||",
   "==", "!=", "<", ">", "<=", ">=", "=",
   "+=", "-=", "*=", "/=", "%=", "&=", "|=", "^=", "<<=", ">>="}
\* a defect the table could have: the bitwise operators on floats
FloatOps_bitwise == IntOps
FloatOps ==
  {"+", "-", "*", "/", "%", "&&", "||", "==", "!=", "<", ">", "<=", ">=", "=",
   "+=", "-=", "*=", "/=", "%="}
StructOps == {"==", "!=", "="}
RefPtrOps == {"==", "!=", "="}

\* type_has_binop (typecheck.c:2064)
type_has_binop(c, h, t0, op) ==
  LET k == h[concrete_type(c, h, t0)].kind
  IN CASE k \in {"bool", "optional"} -> op \in BoolOps
       [] k \in SizedIntKinds -> op \in IntOps
       [] k \in {"f32", "f64"} -> op \in FloatOps
       [] k = "struct" -> op \in StructOps
       [] k \in {"ref", "ptr"} -> op \in RefPtrOps
       [] OTHER -> op = "="

error_cannot_use_as_bool(a, x) ==
  error(a, x, Msg("cannot use type %s as bool", <<fmtnode(a.nodes[x].type)>>))

\* binop (typecheck.c:2177): the operands in turn, the type of the result by
\* the operator, and last the operator looked up for the left type
binop(a, n) ==
  LET L == a.nodes[n].left
      R == a.nodes[n].right
      op == a.nodes[n].op
      c == Compiler(a.intsize)
      bool == PrimId("bool")
      has_binop(a3) ==
        IF type_has_binop(c, a3.nodes, a3.nodes[a3.nodes[n].left].type, op) THEN a3
        ELSE error(a3, n, Msg("type %s has no '%s' operator",
                              <<fmtnode(a3.nodes[a3.nodes[n].left].type), op_fmt(op)>>))
      as_bool(b, x) ==
        IF b.nodes[b.nodes[x].type].kind # "optional" /\ b.nodes[x].type # bool
        THEN error_cannot_use_as_bool(b, x) ELSE b
      narrowed_or_bool(b, x) ==
        IF "NF_NARROWED" \in b.nodes[x].flags THEN b ELSE as_bool(b, x)
      compatible(a2, lty, rty) ==
        IF type_compat(c, a2.nodes, unwrap_alias(a2.nodes, lty),
                       unwrap_alias(a2.nodes, rty), FALSE) THEN a2
        ELSE error_incompatible_types(a2, n, lty, rty)
      deref(b, f, x) ==
        IF type_isref(b.nodes, unwrap_alias(b.nodes, b.nodes[x].type))
        THEN LET d == mkderef(b, x) IN [d.a EXCEPT !.nodes[n][f] = d.n]
        ELSE b
      left_type(b) == [b EXCEPT !.nodes[n].type = b.nodes[b.nodes[n].left].type]
      result(a2) ==
        CASE op \in {"==", "!=", "<", ">", "<=", ">="} ->
               SetType(IF type_isequivalent(c, a2.nodes, a2.nodes[L].type,
                                            a2.nodes[R].type) THEN a2
                       ELSE error_incompatible_types(a2, n, a2.nodes[L].type,
                                                     a2.nodes[R].type), n, bool)
          [] op = "&&" -> SetType(narrowed_or_bool(narrowed_or_bool(a2, L), R), n, bool)
          [] op = "||" -> SetType(as_bool(as_bool(a2, L), R), n, bool)
          [] OTHER ->
               left_type(deref(deref(compatible(a2, a2.nodes[L].type, a2.nodes[R].type),
                                     "left", L), "right", R))
      right(a1) == After(a1, has_binop(result(typectx_pop(incuse(a1, R)))))
      left(a0) ==
        After(a0, right(check("exprp", typectx_push(incuse(a0, L), a0.nodes[L].type), R)))
  IN left(check("exprp", a, L))

\* unaryop (typecheck.c:2246) for the operators !, & and mut&
unaryop(a, n) ==
  LET x == a.nodes[n].expr
      op == a.nodes[n].op
      a1 == check("exprp", incuse(a, x), x)
      xt == a1.nodes[x].type
      a2 == IF a1.nodes[a1.nodes[n].type].kind = "unresolved" \/
               a1.nodes[n].type = PrimId("unknown")
            THEN SetType(a1, n, xt) ELSE a1
  IN After(a1,
       CASE op \in {"&", "mut&"} ->
              LET r == mkreftype(a2, xt, op = "mut&") IN SetType(r.a, n, r.n)
         [] op = "!" ->
              SetType(IF a2.nodes[xt].kind \in {"bool", "optional"} THEN a2
                      ELSE error(a2, n, Msg("type %s has no '%s' operator",
                                            <<fmtnode(xt), op_fmt(op)>>)),
                      n, PrimId("bool")))

\* type_cons_no_side_effects (typecheck.c:577)
RECURSIVE type_cons_no_side_effects(_, _)
type_cons_no_side_effects(h, t) ==
  CASE nodekind_isprimtype(h[t].kind) /\ h[t].kind # "unknown" -> TRUE
    [] h[t].kind \in {"ptr", "ref", "mutref", "optional", "slice", "mutslice",
                      "array", "alias"} ->
         type_cons_no_side_effects(h, h[t].elem)
    [] OTHER -> FALSE

\* expr_no_side_effects (typecheck.c:624)
RECURSIVE expr_no_side_effects(_, _), all_no_side_effects(_, _, _)
all_no_side_effects(h, ns, i) ==
  i > Len(ns) \/ (expr_no_side_effects(h, ns[i]) /\ all_no_side_effects(h, ns, i + 1))
expr_no_side_effects(h, n) ==
  LET N == h[n] IN
  CASE N.kind \in {"EXPR_ID", "EXPR_INTLIT"} -> TRUE
    [] nodekind_islocal(N.kind) ->
         type_cons_no_side_effects(h, N.type) /\
         (N.init = 0 \/ expr_no_side_effects(h, N.init))
    [] N.kind = "EXPR_BLOCK" -> all_no_side_effects(h, N.children, 1)
    [] N.kind = "EXPR_BINOP" ->
         expr_no_side_effects(h, N.right) /\ expr_no_side_effects(h, N.left)
    [] N.kind = "EXPR_PREFIXOP" -> expr_no_side_effects(h, N.expr)
    [] N.kind = "EXPR_IF" ->
         /\ expr_no_side_effects(h, N.cond)
         /\ expr_no_side_effects(h, N.thenb)
         /\ (N.elseb = 0 \/ expr_no_side_effects(h, N.elseb))
    [] N.kind = "EXPR_RETURN" -> N.value = 0 \/ expr_no_side_effects(h, N.value)
    [] N.kind = "EXPR_FUN" ->
         /\ N.type # 0
         /\ \A i \in 1..Len(h[N.type].params) :
              h[h[N.type].params[i]].init = 0 \/
              expr_no_side_effects(h, h[h[N.type].params[i]].init)
         /\ N.body # 0 /\ expr_no_side_effects(h, N.body)
    [] OTHER -> FALSE

\* report_unused (typecheck.c:887): the state and whether it reported
report_unused(a, n) ==
  LET N == a.nodes[n]
      quiet == [a |-> a, reported |-> FALSE]
      report == IF noerror(a)
                THEN [a |-> warning(a, n, Msg("unused %s %s",
                                              <<fmtkind(a, n), fmtnode(n)>>)),
                      reported |-> TRUE]
                ELSE quiet
  IN CASE nodekind_islocal(N.kind) ->
            IF N.name # "_" /\ noerror(a)
            THEN [a |-> warning(a, n, Msg("unused %s %s", <<fmtkind(a, n), N.name>>)),
                  reported |-> TRUE]
            ELSE quiet
       [] N.kind = "EXPR_IF" ->
            IF "NF_RVALUE" \notin N.flags THEN quiet ELSE report
       [] OTHER ->
            IF ~expr_no_side_effects(a.nodes, n) THEN quiet ELSE report

\* a defect the loop could have: the statements after the return keep
\* their count of uses
block_return_keeps_nuse(a, n, cn, rest) ==
  [a EXCEPT !.nodes[n].type = a.nodes[cn].type,
            !.nodes[n].flags = @ \cup {"NF_EXIT"}]
\* block_noscope at a return cn of the block n (typecheck.c:940): the
\* statements after it, rest, are marked unused, the block takes the type of
\* the return and is marked as an exit
block_return(a, n, cn, rest) ==
  LET h == a.nodes IN
  [a EXCEPT !.nodes = SubSeq([m \in DOMAIN h |->
                                IF m \in rest THEN [h[m] EXCEPT !.nuse = 0]
                                ELSE IF m = n
                                THEN [h[m] EXCEPT !.type = h[cn].type,
                                                  !.flags = @ \cup {"NF_EXIT"}]
                                ELSE h[m]], 1, Len(h))]

\* the statement loop of block_noscope: the state and stmt_end
block_stmts(a, n, i, stmt_end) ==
  IF i > stmt_end THEN [a |-> a, stmt_end |-> stmt_end]
  ELSE
    LET ch == a.nodes[n].children
        cn == ch[i]
        a1 == check("stmt", a, cn)
        rest == {ch[j] : j \in (i + 1)..Len(ch)}
    IN IF a1.nodes[cn].kind = "EXPR_RETURN"
       THEN [a |-> block_return(a1, n, cn, rest), stmt_end |-> Len(ch)]
       ELSE check("block_stmts", a1, <<n, i + 1, stmt_end>>)

\* the "report unused expressions" loop of block_noscope
block_unused(a, n, i, stmt_end) ==
  IF i > stmt_end THEN a
  ELSE
    LET cn == a.nodes[n].children[i] IN
      IF a.nodes[cn].nuse = 0 /\ nodekind_isexpr(a.nodes[cn].kind)
      THEN LET r == report_unused(a, cn)
           IN IF r.reported THEN r.a ELSE block_unused(r.a, n, i + 1, stmt_end)
      ELSE block_unused(a, n, i + 1, stmt_end)

\* a defect block_noscope could have: the block does not take the type of
\* its last statement
block_noscope_untyped(a, n) ==
  LET ch == a.nodes[n].children
      count == Len(ch)
      stmt_end0 == IF "NF_RVALUE" \in a.nodes[n].flags /\
                      a.nodes[ch[count]].kind # "EXPR_RETURN"
                   THEN count - 1 ELSE count
      l == check("block_stmts", a, <<n, 1, stmt_end0>>)
      last == l.a.nodes[n].children[l.stmt_end + 1]
      a2 == IF l.stmt_end = count THEN l.a
            ELSE LET b1 == check("exprp", AddFlags(l.a, last, {"NF_RVALUE"}), last)
                     lastexpr == Reload(b1, last)
                     b2 == incuse([b1 EXCEPT !.nodes[n].children[l.stmt_end + 1] =
                                     lastexpr], lastexpr)
                 IN After(b1, b2)
  IN IF count = 0 THEN SetType(a, n, PrimId("void"))
     ELSE InOrder(<<l.a, a2, block_unused(a2, n, 1, l.stmt_end)>>)

\* block_noscope (typecheck.c:921)
block_noscope(a, n) ==
  LET ch == a.nodes[n].children
      count == Len(ch)
      stmt_end0 == IF "NF_RVALUE" \in a.nodes[n].flags /\
                      a.nodes[ch[count]].kind # "EXPR_RETURN"
                   THEN count - 1 ELSE count
      l == check("block_stmts", a, <<n, 1, stmt_end0>>)
      last == l.a.nodes[n].children[l.stmt_end + 1]
      a2 == IF l.stmt_end = count THEN l.a
            ELSE LET b1 == check("exprp", AddFlags(l.a, last, {"NF_RVALUE"}), last)
                     lastexpr == Reload(b1, last)
                     b2 == incuse([b1 EXCEPT !.nodes[n].children[l.stmt_end + 1] =
                                     lastexpr], lastexpr)
                 IN After(b1, SetType(b2, n, b2.nodes[lastexpr].type))
  IN IF count = 0 THEN SetType(a, n, PrimId("void"))
     ELSE InOrder(<<l.a, a2, block_unused(a2, n, 1, l.stmt_end)>>)

\* block (typecheck.c:979)
block(a, n) ==
  LET a1 == check("block_noscope", enter_scope(a), n) IN After(a1, leave_scope(a1))

----------------------------------------------------------------------------
\* Type narrowing of optionals

\* the child expressions of x in the order ast_childit yields them
ast_children(h, x) ==
  LET N == h[x]
      opt(m) == IF m = 0 THEN <<>> ELSE <<m>>
  IN CASE N.kind \in {"EXPR_PREFIXOP", "EXPR_DEREF"} -> opt(N.expr)
       [] N.kind \in {"EXPR_BINOP", "EXPR_ASSIGN"} -> <<N.left, N.right>>
       [] nodekind_islocal(N.kind) -> opt(N.init)
       [] N.kind = "EXPR_IF" -> <<N.cond, N.thenb>> \o opt(N.elseb)
       [] N.kind = "EXPR_BLOCK" -> N.children
       [] N.kind = "EXPR_RETURN" -> opt(N.value)
       [] OTHER -> <<>>

\* type_narrow_error_find_local (typecheck.c:1406): r = [l, op], 0 and ""
\* for "none yet"
RECURSIVE type_narrow_error_find_local(_, _, _), find_local_children(_, _, _, _)
find_local_children(h, cs, i, r) ==
  IF i > Len(cs) THEN r
  ELSE LET r1 == type_narrow_error_find_local(h, cs[i], r)
       IN IF r1.l # 0 /\ r1.op # "" THEN r1
          ELSE find_local_children(h, cs, i + 1, r1)
type_narrow_error_find_local(h, x, r) ==
  LET N == h[x]
      r1 == CASE N.kind \in {"EXPR_VAR", "EXPR_LET"} ->
                   IF r.l = 0 /\ "NF_NARROWED" \in N.flags
                   THEN [r EXCEPT !.l = x] ELSE r
              [] N.kind = "EXPR_PREFIXOP" ->
                   IF N.op = "!" /\ r.op = "" THEN [r EXCEPT !.op = "!"] ELSE r
              [] N.kind = "EXPR_BINOP" ->
                   IF N.op = "||" /\ r.op = "" THEN [r EXCEPT !.op = "||"] ELSE r
              [] OTHER -> r
  IN IF r1.l # 0 /\ r1.op # "" THEN r1
     ELSE find_local_children(h, ast_children(h, x), 1, r1)

\* type_narrow_error_localdef_mix (typecheck.c:1435)
type_narrow_error_localdef_mix(a, cond) ==
  LET r == type_narrow_error_find_local(a.nodes, cond, [l |-> 0, op |-> ""])
  IN report_diag(a, r.l, "DIAG_ERR",
       Msg("cannot use type-narrowing %s definition with '%s' operation",
           <<IF a.nodes[r.l].kind = "EXPR_VAR" THEN "var" ELSE "let", op_fmt(r.op)>>))

\* a defect the "!" case could have: the mark set, never cleared
toggle_negative_set(fl) == fl \cup {"NF_MARK1"}

\* "n2->flags ^= NF_MARK1" (typecheck.c:1484)
toggle_negative(fl) ==
  IF "NF_MARK1" \in fl THEN fl \ {"NF_MARK1"} ELSE fl \cup {"NF_MARK1"}

\* the loop of the "!" case: toggle NF_MARK1 on the narrowed definitions
\* made since the scope had len0 entries
RECURSIVE toggle_mark1(_, _, _)
toggle_mark1(a, i, len0) ==
  IF i <= len0 THEN a
  ELSE LET n2 == a.scope.ents[i].n
           fl == a.nodes[n2].flags
       IN toggle_mark1(
            IF "NF_NARROWED" \in fl
            THEN [a EXCEPT !.nodes[n2].flags = toggle_negative(fl)]
            ELSE a, i - 1, len0)

\* a defect the narrower could have: "||" not counted as a complex op
complex_op_not_only(N) ==
  IF N.kind = "EXPR_PREFIXOP" /\ N.op = "!" THEN {1} ELSE {}

\* "*flags |= 1; // has complex op" (typecheck.c:1475, 1497): the flag a
\* "!" or "||" node on the walk contributes
complex_op(N) ==
  IF (N.kind = "EXPR_PREFIXOP" /\ N.op = "!") \/ (N.kind = "EXPR_BINOP" /\ N.op = "||")
  THEN {1} ELSE {}

\* type_narrow_cond1 (typecheck.c:1448): the state and the flags (1 = has
\* complex op, 2 = has local definition)
RECURSIVE type_narrow_cond1(_, _, _)
type_narrow_cond1(a, flags, x) ==
  LET N == a.nodes[x]
      same == [a |-> a, flags |-> flags]
  IN
  CASE N.kind = "EXPR_PREFIXOP" /\ N.op = "!" ->
         LET r == type_narrow_cond1(a, flags \cup complex_op(N), N.expr)
         IN [a |-> toggle_mark1(r.a, scope_len(r.a.scope), scope_len(a.scope)),
             flags |-> r.flags]
    [] N.kind = "EXPR_BINOP" /\ N.op \in {"&&", "||"} ->
         LET l == type_narrow_cond1(a, flags \cup complex_op(N), N.left)
         IN type_narrow_cond1(l.a, l.flags, N.right)
    [] N.kind = "EXPR_ID" ->
         IF a.nodes[N.type].kind # "optional" \/ "NF_NARROWED" \in N.flags THEN same
         ELSE
           LET a1 == AddFlags(a, x, {"NF_NARROWED"})
               n2 == scope_lookup(a1.scope, N.name, 0)
           IN IF n2 = 0 \/ a1.nodes[n2].kind # N.kind \/
                 "NF_NARROWED" \notin a1.nodes[n2].flags
              THEN LET c == NewId(a1)
                       a2 == AddFlags(ast_clone_node(a1, N.ref), c, {"NF_NARROWED"})
                   IN [a |-> [a2 EXCEPT !.scope =
                                scope_define(@, a2.nodes[c].name, c)],
                       flags |-> flags]
              ELSE [a |-> a1, flags |-> flags]
    [] N.kind \in {"EXPR_VAR", "EXPR_LET"} ->
         IF \/ "NF_NARROWED" \in N.flags
            \/ a.nodes[N.type].kind = "unknown"
            \/ (/\ a.nodes[N.type].kind # "optional"
                /\ (\/ N.init = 0
                    \/ (/\ a.nodes[N.init].type # 0
                        /\ a.nodes[a.nodes[N.init].type].kind
                             \notin {"optional", "unknown"})))
         THEN same
         ELSE [a |-> [AddFlags(a, x, {"NF_NARROWED", "NF_MARK2"}) EXCEPT
                        !.scope = scope_define(@, N.name, x)],
               flags |-> flags \cup {2}]
    [] OTHER -> same

\* a defect the narrower could have: the polarity ignored
narrow_then_positive(isneg, oktype) == oktype

\* "n->type = isneg ? type_void : oktype" (typecheck.c:1632) and
\* "n2->type = isneg ? oktype : type_void" (typecheck.c:1626)
narrow_then(isneg, oktype) == IF isneg THEN PrimId("void") ELSE oktype
narrow_else(isneg, oktype) == IF isneg THEN oktype ELSE PrimId("void")

\* the loop of type_narrow_cond over the definitions made since the scope
\* had len0 entries, from the newest: r = [a, elsedefs]
RECURSIVE narrow_defs(_, _, _, _)
narrow_defs(r, i, len0, with_else) ==
  IF i <= len0 THEN r
  ELSE
    LET a == r.a
        n == a.scope.ents[i].n
        N == a.nodes[n]
        void == PrimId("void")
        isneg == "NF_MARK1" \in N.flags
        islocal == "NF_MARK2" \in N.flags
        a1 == DelFlags(a, n, {"NF_MARK1", "NF_MARK2"})
        opt == IF a.nodes[N.type].kind # "optional"
               THEN a.nodes[N.init].type ELSE N.type
        elem == a.nodes[opt].elem
        oktype == IF islocal /\ a.nodes[N.type].kind = "unresolved"
                  THEN N.type ELSE elem
        a2 == IF islocal /\ a.nodes[N.type].kind # "unresolved" /\
                 N.type # PrimId("unknown") /\
                 ~type_isassignable(Compiler(a.intsize), a.nodes, N.type, elem)
              THEN report_diag(a1, N.init, "DIAG_ERR",
                     Msg("cannot assign value of type %s to %s of type %s",
                         <<fmtnode(elem), fmtkind(a1, n), fmtnode(N.type)>>))
              ELSE a1
        n2 == NewId(a2)
        a3 == IF ~islocal /\ with_else
              THEN SetType(ast_clone_node(a2, n), n2, narrow_else(isneg, oktype))
              ELSE a2
        eds == IF ~islocal /\ with_else THEN Append(r.elsedefs, n2) ELSE r.elsedefs
    IN IF "NF_NARROWED" \notin N.flags THEN narrow_defs(r, i - 1, len0, with_else)
       ELSE narrow_defs([a |-> SetType(a3, n, narrow_then(isneg, oktype)),
                         elsedefs |-> eds], i - 1, len0, with_else)

\* type_narrow_cond (typecheck.c:1563): the state, the result and elsedefs
type_narrow_cond(a, with_else, cond) ==
  LET r == type_narrow_cond1(a, {}, cond) IN
    IF r.flags = {1, 2}
    THEN [a |-> type_narrow_error_localdef_mix(r.a, cond), ok |-> FALSE,
          elsedefs |-> <<>>]
    ELSE LET d == narrow_defs([a |-> r.a, elsedefs |-> <<>>],
                              scope_len(r.a.scope), scope_len(a.scope), with_else)
         IN [a |-> d.a, ok |-> TRUE, elsedefs |-> d.elsedefs]

\* type_narrow_elsedefs (typecheck.c:1642)
RECURSIVE type_narrow_elsedefs(_, _, _)
type_narrow_elsedefs(a, elsedefs, i) ==
  IF i > Len(elsedefs) THEN a
  ELSE type_narrow_elsedefs(
         [a EXCEPT !.scope = scope_define(@, a.nodes[elsedefs[i]].name, elsedefs[i])],
         elsedefs, i + 1)

type_isbool(h, t) == h[t].kind = "bool"

\* a defect the test could have: the then branch must have a value too
ifexpr_has_else_value_both(a, n) ==
  /\ a.nodes[n].elseb # 0
  /\ a.nodes[a.nodes[n].elseb].type # PrimId("void")
  /\ a.nodes[a.nodes[n].thenb].type # PrimId("void")

\* "if (n->elseb && n->elseb->type != type_void)" (typecheck.c:1718)
ifexpr_has_else_value(a, n) ==
  a.nodes[n].elseb # 0 /\ a.nodes[a.nodes[n].elseb].type # PrimId("void")

\* the result type of an "if" used as a value (typecheck.c:1712-1737)
ifexpr_rvalue(a, n) ==
  LET N == a.nodes[n]
      tt == a.nodes[N.thenb].type
      et == IF N.elseb # 0 THEN a.nodes[N.elseb].type ELSE 0
      a1 == SetType(a, n, tt)
      t == NewId(a1)
  IN IF ifexpr_has_else_value(a, n)
     THEN IF ~type_isassignable(Compiler(a.intsize), a.nodes, tt, et) /\
             a.nodes[tt].kind # "unknown" /\ a.nodes[et].kind # "unknown"
          THEN error(a1, N.elseb,
                     Msg("incompatible types %s and %s in \"if\" branches",
                         <<fmtnode(tt), fmtnode(et)>>))
          ELSE a1
     ELSE IF a.nodes[tt].kind # "optional"
          THEN SetType(mknode(a1, [Node("optional") EXCEPT !.elem = tt]), n, t)
          ELSE a1

\* ifexpr (typecheck.c:1659)
ifexpr(a, n) ==
  LET N == a.nodes[n]
      cond == N.cond
      cond_has_unkn == "NF_UNKNOWN" \in a.nodes[cond].flags
      rv == N.flags \cap {"NF_RVALUE"}
      a1 == check("exprp", incuse(enter_scope(a), cond), cond)
      nr == IF cond_has_unkn THEN check("type_narrow_cond", a1, <<N.elseb # 0, cond>>)
            ELSE [a |-> a1, ok |-> TRUE, elsedefs |-> <<>>]
      ct == nr.a.nodes[cond].type
      thenb == check("block_noscope", AddFlags(nr.a, N.thenb, rv), N.thenb)
      a2 == After(thenb, leave_scope(thenb))
      elseb == check("block_noscope",
                     AddFlags(type_narrow_elsedefs(enter_scope(a2), nr.elsedefs, 1),
                              N.elseb, rv), N.elseb)
      a3 == IF N.elseb = 0 THEN a2 ELSE After(elseb, leave_scope(elseb))
  IN After(a1,
     IF ~nr.ok THEN nr.a
     ELSE IF "NF_NARROWED" \notin nr.a.nodes[cond].flags /\
             ~type_isbool(nr.a.nodes, ct) /\ ~type_isopt(nr.a.nodes, ct)
     THEN error(nr.a, cond,
                Msg("conditional is not a boolean nor an optional type", <<>>))
     ELSE InOrder(<<a2, a3, IF rv = {} THEN SetType(a3, n, PrimId("void"))
                            ELSE ifexpr_rvalue(a3, n)>>))

----------------------------------------------------------------------------
\* Functions, the entry points and the driver

\* the parameter loop of fun (typecheck.c:1330-1341)
RECURSIVE fun_params(_, _, _)
fun_params(a, n, i) ==
  LET params == a.nodes[a.nodes[n].type].params IN
  IF i > Len(params) THEN a
  ELSE
    LET param == params[i] IN
      check("fun_params", IF "NF_CHECKED" \notin a.nodes[param].flags
        THEN check("exprp", SetChecked(a, param), param)
        ELSE IF a.nodes[n].body # 0 /\ a.nodes[param].name # "_"
        THEN define(a, a.nodes[param].name, param)
        ELSE a, <<n, i + 1>>)

\* the body part of fun (typecheck.c:1362-1388)
fun_body(a, n) ==
  LET ft == a.nodes[n].type
      res == a.nodes[ft].result
      body == a.nodes[n].body
      void == PrimId("void")
      b0 == IF res # void THEN AddFlags(a, body, {"NF_RVALUE"})
            ELSE DelFlags(a, body, {"NF_RVALUE"})
      b == check("block", typectx_push(enter_ns(b0, n), res), body)
      b1 == After(b, leave_ns(typectx_pop(b)))
      ch == b1.nodes[body].children
      last == ch[Len(ch)]
      r == check("check_retval", b1, <<last, last>>)
      m == mkretexpr(r.a, r.n)
  IN After(b1,
       IF res # void /\ "NF_EXIT" \notin b1.nodes[body].flags
       THEN IF Len(ch) = 0 THEN check("check_retval", b1, <<body, 0>>).a
            ELSE [m.a EXCEPT !.nodes[body].children[Len(ch)] = m.n]
       ELSE b1)


\* fun (typecheck.c:1346): the signature of the special "drop" function; a
\* type with a drop function is marked
fun_drop(a, n) ==
  LET ft == a.nodes[n].type
      params == a.nodes[ft].params
      ok == /\ a.nodes[ft].result = PrimId("void") /\ Len(params) = 1
            /\ a.nodes[a.nodes[params[1]].type].kind = "mutref"
  IN IF a.nodes[n].recvt = 0 \/ a.nodes[n].name # "drop" THEN a
     ELSE IF ok THEN AddFlags(a, a.nodes[n].recvt, {"NF_DROP"})
     ELSE error(a, n, Msg("invalid signature of \"drop\" function, expecting (mut this)void",
                          <<>>))

\* fun (typecheck.c:1303-1316): the namespace of the function; a type
\* function enters the namespace of its receiver type
fun_ns(a, n) ==
  IF a.nodes[n].recvt # 0
  THEN LET b == CheckSlot(a, n, "recvt")
       IN enter_ns(IF b.nodes[n].nsparent # 0 THEN b
                   ELSE [b EXCEPT !.nodes[n].nsparent = b.nodes[n].recvt],
                   b.nodes[n].recvt)
  ELSE IF a.nodes[n].nsparent # 0 THEN a
  ELSE LET b == [a EXCEPT !.nodes[n].nsparent = a.nspath[Len(a.nspath)]]
       IN IF b.nodes[n].name # "" THEN define(b, b.nodes[n].name, n) ELSE b

\* fun (typecheck.c:1318-1322): the function type, checked once
fun_type(a, n) ==
  LET ty == a.nodes[n].type
      thistype == IF a.nodes[n].recvt # 0 THEN a.nodes[n].recvt ELSE PrimId("unknown")
  IN IF "NF_CHECKED" \in a.nodes[ty].flags THEN a
     ELSE LET r == check("funtype1", Ran(SetChecked(a, ty), ty), <<ty, thistype>>)
          IN SetType(r.a, n, r.t)

\* fun (typecheck.c:1298) for a function that is not "main"
fun(a, n) ==
  LET a2 == fun_type(fun_ns([a EXCEPT !.fun = n], n), n)
      ft == a2.nodes[n].type
      hasparams == Len(a2.nodes[ft].params) > 0
      a3 == IF hasparams THEN check("fun_params", enter_scope(a2), <<n, 1>>) ELSE a2
      a4 == fun_drop(CheckSlot(a3, ft, "result"), n)
      a5 == IF a4.nodes[n].body # 0 THEN check("fun_body", a4, n)
            ELSE AddFlags(a4, n, {"NF_VIS_PKG"})
      a6 == IF a5.nodes[n].recvt # 0 THEN leave_ns(a5) ELSE a5
  IN InOrder(<<a2, a3, a4, a5,
               [a6 EXCEPT !.scope = IF hasparams THEN scope_pop(@) ELSE @,
                          !.fun = a.fun]>>)

----------------------------------------------------------------------------
\* Calls and type constructions

\* type_isprim (compiler.h:1077)
type_isprim(h, t) == nodekind_isprimtype(h[t].kind)

\* type_isconvertible (typecheck.c:398)
type_isconvertible(h, dst0, src0) ==
  LET d1 == unwrap_alias(h, dst0)
      s1 == unwrap_alias(h, src0)
      dst == IF type_isref(h, d1) THEN h[d1].elem ELSE d1
      src == IF type_isref(h, s1) THEN h[s1].elem ELSE s1
  IN dst = src \/ (type_isprim(h, dst) /\ type_isprim(h, src))

\* finalize_typecons (typecheck.c:2665)
finalize_typecons(a, n) ==
  LET t == a.nodes[n].type
      e == a.nodes[n].expr
      c == Compiler(a.intsize)
  IN IF ~type_isprim(a.nodes, unwrap_alias(a.nodes, t)) THEN a
     ELSE IF e = 0 THEN a
     ELSE IF concrete_type(c, a.nodes, t) = concrete_type(c, a.nodes, a.nodes[e].type)
     THEN Replace([a EXCEPT !.nodes[e].nuse = @ + MAX(1, a.nodes[n].nuse) - 1], n, e)
     ELSE IF ~type_isconvertible(a.nodes, t, a.nodes[e].type)
     THEN error(a, n, Msg("cannot convert value of type %s to type %s",
                          <<fmtnode(a.nodes[e].type), fmtnode(t)>>))
     ELSE a

\* typecons (typecheck.c:2691)
typecons(a, n) ==
  LET e == a.nodes[n].expr
      a1 == IF e = 0 THEN a
            ELSE typectx_pop(check("exprp", typectx_push(incuse(a, e), a.nodes[n].type), e))
  IN After(a1, finalize_typecons(a1, n))

\* convert_call_to_typecons (typecheck.c:2718): the node is converted in place
convert_call_to_typecons(a, n, t) ==
  LET args == a.nodes[n].args
      a1 == [a EXCEPT !.nodes[n].kind = "EXPR_TYPECONS", !.nodes[n].type = t]
      a2 == IF type_isprim(a.nodes, unwrap_alias(a.nodes, t))
            THEN [a1 EXCEPT !.nodes[n].expr = args[1]]
            ELSE a1
  IN finalize_typecons(a2, n)

\* call_type_prim (typecheck.c:2819)
call_type_prim(a, n, dst) ==
  LET arg == a.nodes[n].args[1]
      a1 == typectx_pop(check("exprp", typectx_push(a, dst), arg))
      a2 == SetType(incuse(a1, arg), n, dst)
  IN IF ~nodekind_isexpr(a.nodes[arg].kind)
     THEN error(a, arg, Msg("invalid value", <<>>))
     ELSE IF a.nodes[arg].kind = "EXPR_PARAM"
     THEN error(a, arg, Msg("%s type cast does not accept named arguments",
                            <<fmtnode(dst)>>))
     ELSE After(a1, convert_call_to_typecons(a2, n, dst))

\* error_field_type (typecheck.c:2707)
error_field_type(a, arg, f) ==
  LET origin == IF a.nodes[arg].kind = "EXPR_PARAM" THEN a.nodes[arg].init ELSE arg
  IN error(a, origin, Msg("passing value of type %s for field \"%s\" of type %s",
                          <<fmtnode(a.nodes[arg].type), a.nodes[f].name,
                            fmtnode(a.nodes[f].type)>>))

\* the arguments i.. of a struct construction (typecheck.c:2756-2813); given
\* maps the name of a field that has a value to the argument that gave it
check_call_type_struct_args(a, call, t, i, given) ==
  IF i > Len(a.nodes[call].args) THEN a
  ELSE
    LET arg == a.nodes[call].args[i]
        k == a.nodes[arg].kind
        name == a.nodes[arg].name
        fields == a.nodes[t].fields
        fs == {j \in 1..Len(fields) : a.nodes[fields[j]].name = name}
        f == fields[CHOOSE j \in fs : TRUE]
        s == fmtnode(t)
        next(x, g) == check("check_call_type_struct_args", x, <<call, t, i + 1, g>>)
        a1 == typectx_push(AddFlags(a, arg, {"NF_RVALUE"}), a.nodes[f].type)
        \* name: value
        b1 == check("exprp", a1, a1.nodes[arg].init)
        b2 == [b1 EXCEPT !.nodes[arg].init = Reload(b1, a1.nodes[arg].init)]
        b3 == SetType(b2, arg, b2.nodes[b2.nodes[arg].init].type)
        \* an identifier named as the field
        c1 == check("idexpr", a1, arg)
        d0 == IF k = "EXPR_PARAM" THEN b3 ELSE c1
        d1 == typectx_pop(incuse(d0, arg))
        d2 == IF ~type_isassignable(Compiler(a.intsize), d1.nodes,
                                    d1.nodes[f].type, d1.nodes[arg].type)
              THEN error_field_type(d1, arg, f)
              ELSE LET d == implicit_rvalue_deref(d1, d1.nodes[f].type, arg)
                   IN [d.a EXCEPT !.nodes[call].args[i] = d.n]
    IN IF k \notin {"EXPR_PARAM", "EXPR_ID"}
       THEN next(error(a, arg,
                   Msg("positional argument in struct constructor; use either name:value or an identifier with the same name as the intended struct field",
                       <<>>)), given)
       ELSE IF fs = {}
       THEN next(error(a, arg, Msg("no \"%s\" field in struct %s", <<name, s>>)), given)
       ELSE IF name \in DOMAIN given
       THEN next(warning(error(a, arg,
                           Msg("duplicate value for field \"%s\" of struct %s",
                               <<name, s>>)),
                         given[name],
                         Msg("value for field \"%s\" already provided here", <<name>>)),
                 given)
       ELSE After(d0, next(d2, (name :> arg) @@ given))

\* check_call_type_struct (typecheck.c:2736)
check_call_type_struct(a, call, t) ==
  IF alloc_fails(a) THEN out_of_mem(alloc(a))
  ELSE check("check_call_type_struct_args", alloc(a), <<call, t, 1, <<>>>>)

\* error_call_type_arity (typecheck.c:2844)
error_call_type_arity(a, call, t, minargs, maxargs) ==
  LET args == a.nodes[call].args
      basetype == unwrap_alias(a.nodes, t)
      logical_op == IF a.nodes[basetype].kind \in {"struct", "array"}
                    THEN "type constructor" ELSE "type cast"
  IN IF Len(args) < minargs
     THEN error(a, IF Len(args) > 0 THEN args[Len(args)] ELSE a.nodes[call].recv,
                Msg("not enough arguments for %s %s, expecting%s %u",
                    <<fmtnode(t), logical_op,
                      IF minargs # maxargs THEN " at least" ELSE "",
                      ToString(minargs)>>))
     ELSE IF maxargs = 0
     THEN error(a, args[maxargs + 1],
                Msg("unexpected value %s; %s %s accepts no arguments",
                    <<fmtnode(args[maxargs + 1]), fmtnode(t), logical_op>>))
     ELSE error(a, args[maxargs + 1],
                Msg("unexpected extra value %s in %s %s",
                    <<fmtnode(args[maxargs + 1]), fmtnode(t), logical_op>>))

\* check_call_type_arity (typecheck.c:2877): the arity is right
check_call_type_arity(a, call, minargs, maxargs) ==
  ~(minargs > Len(a.nodes[call].args) \/ Len(a.nodes[call].args) > maxargs)

\* the kinds call_type sends to call_type_prim (typecheck.c:2908-2915)
CallTypePrimKinds == {"bool", "int", "i8", "i16", "i32", "i64", "f32", "f64"}
\* the same with the unsigned integers
CallTypePrimKinds_all == PrimKinds \ {"void", "unknown"}

\* call_type (typecheck.c:2888)
call_type(a, n, t) ==
  LET a0 == SetType(a, n, t)
      origt == t
      u == unwrap_alias(a.nodes, t)
      k == a.nodes[u].kind
      arity(min, max) == check_call_type_arity(a0, n, min, max)
  IN CASE k = "void" ->
            IF ~arity(0, 0) THEN error_call_type_arity(a0, n, origt, 0, 0)
            ELSE [a0 EXCEPT !.nodes[n].kind = "EXPR_TYPECONS",
                            !.nodes[n].type = origt, !.nodes[n].expr = 0]
       [] k \in CallTypePrimKinds ->
            IF ~arity(1, 1) THEN error_call_type_arity(a0, n, origt, 1, 1)
            ELSE call_type_prim(a0, n, origt)
       [] k = "struct" ->
            IF ~arity(0, Len(a.nodes[u].fields))
            THEN error_call_type_arity(a0, n, origt, 0, Len(a.nodes[u].fields))
            ELSE check_call_type_struct(a0, n, u)
       [] k = "array" /\ ~arity(1, Len(a.nodes[n].args) + 1) ->
            error_call_type_arity(a0, n, origt, 1, Len(a.nodes[n].args) + 1)
       [] k \in {"array", "fun", "ptr", "ref", "optional"} ->
            error(a0, a.nodes[n].recv, Msg("NOT IMPLEMENTED: %s", <<k>>))
       [] k = "unresolved" ->
            IF compiler_errcount(a0) > 0 THEN a0
            ELSE assertf(a0, "compiler_errcount(a->compiler) > 0")
       [] OTHER -> assertf(a0, "unexpected " \o k)

\* the arguments i.. of a call of a function (typecheck.c:2970-3030); off is
\* 1 when the first parameter is "this", seen tells of a named argument
call_fun_args(a, call, ft, i, off, seen) ==
  IF i > Len(a.nodes[ft].params) - off THEN a
  ELSE
    LET arg == a.nodes[call].args[i]
        param == a.nodes[ft].params[i + off]
        pname == a.nodes[param].name
        named == a.nodes[arg].kind = "EXPR_PARAM"
        a1 == typectx_push(a, a.nodes[param].type)
        \* the named argument
        b1 == check("exprp", a1, a1.nodes[arg].init)
        b2 == SetType(b1, arg, b1.nodes[b1.nodes[arg].init].type)
        known == \E j \in (1 + off)..Len(a.nodes[ft].params) :
                   a.nodes[a.nodes[ft].params[j]].name = a.nodes[arg].name
        b3 == IF a.nodes[arg].name # pname
              THEN error(b2, arg,
                         Msg("%s named argument \"%s\", in function call %s",
                             <<IF known THEN "invalid position of" ELSE "unknown",
                               a.nodes[arg].name, fmtnode(ft)>>))
              ELSE b2
        \* the positional argument, through the slot of the call
        c1 == check("exprp", a1, arg)
        c2 == [c1 EXCEPT !.nodes[call].args[i] = Reload(c1, arg)]
        \* "use(arg); typectx_pop(a);" and the check of the type
        d0 == IF named THEN b3 ELSE c2
        arg1 == d0.nodes[call].args[i]
        d1 == typectx_pop(incuse(d0, arg1))
        pt == d1.nodes[param].type
        at == d1.nodes[arg1].type
        d2 == IF ~type_isassignable(Compiler(a.intsize), d1.nodes, pt, at) /\
                 pt # PrimId("unknown") /\ at # PrimId("unknown")
              THEN error(d1, arg1,
                         Msg("passing value of type %s to parameter of type %s",
                             <<fmtnode(at), fmtnode(pt)>>))
              ELSE LET d == implicit_rvalue_deref(d1, pt, arg1)
                   IN [d.a EXCEPT !.nodes[call].args[i] = d.n]
    IN IF ~named /\ seen
       THEN typectx_pop(
              error(a1, arg, Msg("positional argument after named argument(s)", <<>>)))
       ELSE After(d0, check("call_fun_args", d2, <<call, ft, i + 1, off, seen \/ named>>))

\* call_fun (typecheck.c:2953)
call_fun(a, call, ft) ==
  LET a0 == SetType(a, call, a.nodes[ft].result)
      params == a.nodes[ft].params
      off == IF Len(params) > 0 /\ a.nodes[params[1]].isthis THEN 1 ELSE 0
      paramsc == Len(params) - off
      nargs == Len(a.nodes[call].args)
      a1 == check("call_fun_args", a0, <<call, ft, 1, off, FALSE>>)
  IN IF nargs # paramsc
     THEN error(a0, call, Msg("%s arguments in function call, expected %u",
                              <<IF nargs < paramsc THEN "not enough" ELSE "too many",
                                ToString(paramsc)>>))
     ELSE After(a1,
            IF "NF_RVALUE" \notin a1.nodes[call].flags /\
               type_isowner(a1.nodes, a1.nodes[call].type) /\ noerror(a1)
            THEN warning(a1, call,
                         Msg("unused result; ownership transferred from function call",
                             <<>>))
            ELSE a1)

\* unwrap_id (typecheck.c:162)
unwrap_id(a, n) ==
  IF a.nodes[n].kind = "EXPR_ID" /\ a.nodes[n].ref # 0 THEN a.nodes[n].ref ELSE n

\* call (typecheck.c:3040)
call(a, n) ==
  LET a1 == check("exprp", a, a.nodes[n].recv)
      recv == unwrap_id(a1, a1.nodes[n].recv)
      isexpr == nodekind_isexpr(a1.nodes[recv].kind)
      recvtype == IF isexpr THEN a1.nodes[recv].type ELSE recv
  IN After(a1,
       IF a1.reported_error THEN a1
       ELSE IF isexpr /\ a1.nodes[recvtype].kind = "fun" THEN call_fun(a1, n, recvtype)
       ELSE IF ~isexpr /\ nodekind_istype(a1.nodes[recv].kind)
       THEN call_type(a1, n, recvtype)
       ELSE IF isexpr
       THEN error(SetType(a1, n, a1.typectx), a1.nodes[n].recv,
                  Msg("calling an expression of type %s, expected function or type",
                      <<fmtnode(a1.nodes[recv].type)>>))
       ELSE error(SetType(a1, n, a1.typectx), a1.nodes[n].recv,
                  Msg("calling %s; expected function or type", <<fmtnode(recv)>>)))

\* a defect the entry could have: no test of the checked flag
exprp_gate_open(a, n) == FALSE

\* "if (n->flags & NF_CHECKED) return;" at the head of exprp
exprp_gate(a, n) == "NF_CHECKED" \in a.nodes[n].flags

\* a defect exprp could have: no test of reported_error
exprp_latched_never(a) == FALSE
\* "if UNLIKELY(a->reported_error) return;" in exprp, after the node is
\* marked
exprp_latched(a) == a.reported_error

\* exprp (typecheck.c:3664)
exprp(a, n) ==
  IF exprp_gate(a, n) THEN a
  ELSE
    LET a0 == SetChecked(a, n)
        a1 == CheckSlot(Ran(a0, n), n, "type")
        k == a.nodes[n].kind
    IN IF exprp_latched(a0) THEN a0
       ELSE After(a1,
            CASE k = "EXPR_FUN" -> check("fun", a1, n)
              [] k = "EXPR_IF" -> check("ifexpr", a1, n)
              [] k = "EXPR_ID" -> check("idexpr", a1, n)
              [] k = "EXPR_RETURN" -> check("retexpr", a1, n)
              [] k = "EXPR_BINOP" -> check("binop", a1, n)
              [] k = "EXPR_ASSIGN" -> check("assign", a1, n)
              [] k = "EXPR_BLOCK" -> check("block", a1, n)
              [] k = "EXPR_CALL" -> check("call", a1, n)
              [] k = "EXPR_TYPECONS" -> check("typecons", a1, n)
              [] k = "EXPR_INTLIT" -> intlit_node(a1, n)
              [] k = "EXPR_PREFIXOP" -> check("unaryop", a1, n)
              [] k \in {"EXPR_FIELD", "EXPR_PARAM"} -> check("local", a1, n)
              [] k \in {"EXPR_VAR", "EXPR_LET"} -> check("local_var", a1, n))

\* define_typedef (typecheck.c:3481)
define_typedef(a, n) ==
  define(a, a.nodes[a.nodes[n].type].name, a.nodes[n].type)

\* typedef_ (typecheck.c:3493)
typedef_(a, n) == define_typedef(CheckSlot(a, n, "type"), n)

\* stmt (typecheck.c:3649)
stmt(a, n) ==
  IF a.reported_error THEN a
  ELSE IF a.nodes[n].kind = "STMT_TYPEDEF"
  THEN IF "NF_CHECKED" \in a.nodes[n].flags THEN a
       ELSE typedef_(Ran(SetChecked(a, n), n), n)
  ELSE check("exprp", a, n)

\* the rules by name: a rule calls a rule through check (n is the node,
\* or the arguments after the state)
check(rule, a, n) ==
  CASE rule = "type" -> type(a, n)
    [] rule = "exprp" -> exprp(a, n)
    [] rule = "stmt" -> stmt(a, n)
    [] rule = "local" -> local(a, n)
    [] rule = "check_local" -> check_local(a, n)
    [] rule = "structtype_loop" -> structtype_loop(a, n[1], n[2], n[3], n[4])
    [] rule = "structtype" -> structtype(a, n)
    [] rule = "arraytype" -> arraytype(a, n)
    [] rule = "funtype1_loop" -> funtype1_loop(a, n[1], n[2])
    [] rule = "funtype1" -> funtype1(a, n[1], n[2])
    [] rule = "funtype" -> funtype(a, n)
    [] rule = "aliastype" -> aliastype(a, n)
    [] rule = "unresolvedtype" -> unresolvedtype(a, n)
    [] rule = "check_template" -> check_template(a, n[1], n[2])
    [] rule = "transform_list" -> transform_list(a, n[1], n[2], n[3])
    [] rule = "instantiate_trfn" -> instantiate_trfn(a, n[1], n[2])
    [] rule = "templatetype_args" -> templatetype_args(a, n[1], n[2])
    [] rule = "templatetype" -> templatetype(a, n)
    [] rule = "local_init" -> local_init(a, n)
    [] rule = "local_var" -> local_var(a, n)
    [] rule = "idexpr" -> idexpr(a, n)
    [] rule = "check_retval" -> check_retval(a, n[1], n[2])
    [] rule = "retexpr" -> retexpr(a, n)
    [] rule = "assign" -> assign(a, n)
    [] rule = "binop" -> binop(a, n)
    [] rule = "unaryop" -> unaryop(a, n)
    [] rule = "block_stmts" -> block_stmts(a, n[1], n[2], n[3])
    [] rule = "block_noscope" -> block_noscope(a, n)
    [] rule = "block" -> block(a, n)
    [] rule = "type_narrow_cond" -> type_narrow_cond(a, n[1], n[2])
    [] rule = "ifexpr" -> ifexpr(a, n)
    [] rule = "fun_params" -> fun_params(a, n[1], n[2])
    [] rule = "fun_body" -> fun_body(a, n)
    [] rule = "fun" -> fun(a, n)
    [] rule = "typecons" -> typecons(a, n)
    [] rule = "check_call_type_struct_args" ->
         check_call_type_struct_args(a, n[1], n[2], n[3], n[4])
    [] rule = "call_fun_args" -> call_fun_args(a, n[1], n[2], n[3], n[4], n[5])
    [] rule = "call" -> call(a, n)

\* postanalyze (typecheck.c:3764-3812)
RECURSIVE postanalyze_any(_, _), postanalyze_structtype(_, _, _)
postanalyze_dependency(a, n) ==
  IF a.nodes[n].kind # "struct" THEN a
  ELSE IF n \in DOMAIN a.postanalyze /\ a.postanalyze[n] = 1 THEN a
  ELSE postanalyze_any([a EXCEPT !.postanalyze = (n :> 1) @@ @], n)
\* the state a1 after postanalyze_dependency is worked out once, as a
\* value, before the rest of the loop
postanalyze_structtype(a, st, i) ==
  IF i > Len(a.nodes[st].fields) THEN a
  ELSE LET f == a.nodes[st].fields[i] IN
    CHOOSE r \in {postanalyze_structtype(
                    IF type_isowner(a1.nodes, a1.nodes[f].type)
                    THEN AddFlags(a1, st, {"NF_SUBOWNERS"}) ELSE a1, st, i + 1) :
                  a1 \in {postanalyze_dependency(a, a.nodes[f].type)}} : TRUE
postanalyze_any(a, n) ==
  CASE a.nodes[n].kind = "struct" -> postanalyze_structtype(a, n, 1)
    [] a.nodes[n].kind = "alias" -> postanalyze_any(a, a.nodes[n].elem)
    [] OTHER -> a
\* the entries of the map that are not done
postanalyze_todo(a) == {n \in DOMAIN a.postanalyze : a.postanalyze[n] # 1}
\* a defect the loop could have: the entry is not marked
postanalyze_entry_unmarked(a, n) == postanalyze_any(a, n)
\* one pass of the loop of postanalyze, which stops at the entry n that is
\* not done: "e->value = (void*)1; postanalyze_any(a, e->key); goto again"
postanalyze_entry(a, n) == postanalyze_any([a EXCEPT !.postanalyze[n] = 1], n)

\* assign_nsparent (typecheck.c:3940): "type(a, &fn->recvt)" with result r, and
\* the receiver type as the parent
assign_recvt(r, n) ==
  [r.a EXCEPT !.nodes[n].recvt = r.t, !.nodes[n].nsparent = r.t]

\* assign_nsparent (typecheck.c:3934): a type function belongs to its
\* receiver type, any other function to the unit
assign_nsparent(a, n) ==
  IF a.nodes[n].kind # "EXPR_FUN" THEN a
  ELSE IF a.nodes[n].recvt # 0
  THEN assign_recvt(check("type", a, a.nodes[n].recvt), n)
  ELSE [a EXCEPT !.nodes[n].nsparent = a.nspath[Len(a.nspath)]]

\* a defect the second half of the loop could have: nothing is defined
define_at_unit_level_nothing(a, n) == a
\* define_at_unit_level (typecheck.c:3951)
define_at_unit_level(a, n) ==
  IF a.nodes[n].kind = "EXPR_FUN" THEN define(a, a.nodes[n].name, n) ELSE a

\* typecheck (typecheck.c:4003): "assign parents and define", for the
\* children of a unit from the i-th on
RECURSIVE assign_and_define(_, _, _)
assign_and_define(a, children, i) ==
  IF i > Len(children) THEN a
  ELSE assign_and_define(
         define_at_unit_level(assign_nsparent(a, children[i]), children[i]),
         children, i + 1)

\* the typecheck_t a pass starts with (typecheck.c:3966)
typecheck_t(nodes, pkgdefs, intsize, zero) ==
  [nodes |-> nodes, pkgdefs |-> pkgdefs, intsize |-> intsize, zero |-> zero,
   scope |-> ScopeEmpty, typectx |-> PrimId("void"), typectxstack |-> <<>>,
   nspath |-> <<>>, reported_error |-> FALSE, err |-> ErrNone, diags |-> <<>>,
   errcount |-> 0, fun |-> 0, typeidmap |-> <<>>, templateimap |-> <<>>,
   postanalyze |-> <<>>, templatenest |-> 0, marked |-> <<>>, ran |-> <<>>,
   uses |-> <<>>, latched |-> <<>>, direct |-> <<>>, missed |-> <<>>,
   allocs |-> 0, failing |-> {}, transform_err |-> ErrNoMem, fatals |-> <<>>,
   instdepth |-> 0, overflow |-> FALSE, expanded |-> {},
   asserts |-> <<>>, repl |-> <<>>, pushes |-> 0, pushfail |-> {},
   wild |-> PrimId("void")]

\* the number of maps typecheck initializes before anything else
NumMaps == 4
\* typecheck (typecheck.c:3974): the map_init calls, up to the first that
\* fails, which sets err
typecheck_maps(a) ==
  LET bad == {k \in 1..NumMaps : (a.allocs + k) \in a.failing} IN
    IF bad = {} THEN [a EXCEPT !.allocs = @ + NumMaps]
    ELSE Fatal([a EXCEPT !.allocs = @ + (CHOOSE k \in bad : \A j \in bad : k <= j),
                         !.err = ErrNoMem], ErrNoMem)

\* typecheck (typecheck.c:3989) from the package scope up to the statements
\* of the unit
typecheck_begin(a, unit) ==
  assign_and_define(enter_ns(enter_scope(enter_scope(a)), unit),
                    a.nodes[unit].children, 1)

\* typecheck from the end of the unit's statements to postanalyze
typecheck_end(a) == leave_scope(leave_ns(a))

----------------------------------------------------------------------------
(***************************************************************************)
(* Source programs.  A program is a term; Build lays it out in the heap as *)
(* the parser leaves it: identifiers and names of types are unresolved     *)
(* (NF_UNKNOWN, which the enclosing expressions inherit), an expression    *)
(* whose type is not written has type unknown (identifier, literal, local) *)
(* or void, and operands, conditions and initializers are rvalues.         *)
(***************************************************************************)
RECURSIVE Build(_, _), BuildSeq(_, _, _)

None == <<"none">>

\* the terms ts[i..] built in order: the heap and the nodes
BuildSeq(h, ts, i) ==
  IF i > Len(ts) THEN [h |-> h, ns |-> <<>>]
  ELSE LET b == Build(h, ts[i])
           r == BuildSeq(b.h, ts, i + 1)
       IN IF b.n >= 0 THEN [h |-> r.h, ns |-> <<b.n>> \o r.ns] ELSE r

\* a type function: the function r with the receiver type rn
WithRecv(r, rn) ==
  [h |-> [r.h EXCEPT ![r.n].recvt = rn,
                     ![r.n].flags = @ \cup (r.h[rn].flags \cap {"NF_UNKNOWN"})],
   n |-> r.n]
BuildRecv(rt, f) == WithRecv(Build(rt.h, f), rt.n)

\* the parameter "this" or "mut this"
BuildThis(r, ismut) ==
  [h |-> [r.h EXCEPT ![r.n].isthis = TRUE, ![r.n].ismut = ismut], n |-> r.n]

Unkn(h, ns) ==
  IF \E i \in 1..Len(ns) : ns[i] # 0 /\ "NF_UNKNOWN" \in h[ns[i]].flags
  THEN {"NF_UNKNOWN"} ELSE {}

RV(h, n) == [h EXCEPT ![n].flags = @ \cup {"NF_RVALUE"}]
RVs(h, ns) ==
  [m \in 1..Len(h) |-> IF m \in {ns[i] : i \in 1..Len(ns)} THEN RV(h, m)[m] ELSE h[m]]

Build(h, t) ==
  LET tag == t[1]
      new(hh, node) == [h |-> Append(hh, node), n |-> Len(hh) + 1]
      void == PrimId("void")
      unkn == PrimId("unknown")
  IN
  \* the heap so far is evaluated first: the nodes are made in sequence
  CASE tag = "none" \/ Len(h) = 0 -> [h |-> h, n |-> 0]
    [] tag = "prim" -> [h |-> h, n |-> PrimId(t[2])]
    [] tag \in {"optional", "ref", "mutref", "ptr", "slice", "mutslice"} ->
         LET e == Build(h, t[2])
         IN new(e.h, [Node(tag) EXCEPT !.elem = e.n, !.flags = Unkn(e.h, <<e.n>>)])
    [] tag = "array" ->
         LET e == Build(h, t[2])
             l == Build(e.h, <<"int", t[3]>>)
         IN new(l.h, [Node("array") EXCEPT !.elem = e.n, !.lenexpr = l.n,
                                           !.flags = Unkn(e.h, <<e.n>>)])
    [] tag = "named" ->
         new(h, [Node("unresolved") EXCEPT !.name = t[2], !.flags = {"NF_UNKNOWN"}])
    [] tag = "struct" ->
         LET fs == BuildSeq(h, t[3], 1)
         IN new(fs.h, [Node("struct") EXCEPT !.name = t[2], !.fields = fs.ns,
                                             !.flags = Unkn(fs.h, fs.ns)])
    [] tag = "tplparam" -> new(h, [Node("NODE_TPLPARAM") EXCEPT !.name = t[2]])
    [] tag = "ph" -> new(h, [Node("placeholder") EXCEPT !.name = t[2]])
    [] tag = "tstruct" ->
         LET ps == BuildSeq(h, [i \in 1..Len(t[3]) |-> <<"tplparam", t[3][i]>>], 1)
             fs == BuildSeq(ps.h, t[4], 1)
             param(nm) == ps.ns[CHOOSE i \in 1..Len(ps.ns) : fs.h[ps.ns[i]].name = nm]
             hh == [n \in 1..Len(fs.h) |->
                      IF fs.h[n].kind = "placeholder" /\ n > Len(ps.h)
                      THEN [fs.h[n] EXCEPT !.templateparam = param(fs.h[n].name)]
                      ELSE fs.h[n]]
         IN new(hh, [Node("struct") EXCEPT !.name = t[2], !.fields = fs.ns,
                       !.templateparams = ps.ns,
                       !.flags = Unkn(hh, fs.ns) \cup {"NF_TEMPLATE"}])
    [] tag = "use" ->
         LET r == Build(h, t[2])
             as == BuildSeq(r.h, t[3], 1)
         IN new(as.h, [Node("template") EXCEPT !.recv = r.n, !.args = as.ns,
                         !.flags = Unkn(as.h, <<r.n>> \o as.ns)])
    [] tag = "alias" ->
         LET e == Build(h, t[3])
         IN new(e.h, [Node("alias") EXCEPT !.name = t[2], !.elem = e.n,
                                           !.flags = Unkn(e.h, <<e.n>>)])
    [] tag = "typedef" ->
         LET e == Build(h, t[2])
         IN new(e.h, [Node("STMT_TYPEDEF") EXCEPT !.type = e.n])
    [] tag \in {"field", "param", "let", "var"} ->
         LET ty == Build(h, t[3])
             init == Build(ty.h, t[4])
             hh == IF init.n = 0 THEN init.h ELSE RV(init.h, init.n)
             kind == CASE tag = "field" -> "EXPR_FIELD" [] tag = "param" -> "EXPR_PARAM"
                       [] tag = "let" -> "EXPR_LET" [] tag = "var" -> "EXPR_VAR"
         IN new(hh, [Node(kind) EXCEPT !.name = t[2], !.type = ty.n, !.init = init.n,
                                       !.flags = Unkn(hh, <<ty.n, init.n>>)])
    [] tag = "fun" ->
         LET ps == BuildSeq(h, t[3], 1)
             res == Build(ps.h, t[4])
             ft == new(res.h, [Node("fun") EXCEPT !.params = ps.ns, !.result = res.n,
                                 !.flags = Unkn(res.h, ps.ns \o <<res.n>>)])
             body == Build(ft.h, t[5])
         IN new(body.h, [Node("EXPR_FUN") EXCEPT !.name = t[2], !.type = ft.n,
                           !.body = body.n,
                           !.flags = Unkn(body.h, <<ft.n, body.n>>)])
    [] tag = "tfun" ->
         BuildRecv(Build(h, t[2]), <<"fun", t[3], t[4], t[5], t[6]>>)
    [] tag = "this" -> BuildThis(Build(h, <<"param", "this", t[3], None>>), t[2])
    [] tag = "block" ->
         LET cs == BuildSeq(h, t[2], 1)
         IN new(cs.h, [Node("EXPR_BLOCK") EXCEPT !.children = cs.ns, !.type = void,
                                                 !.flags = Unkn(cs.h, cs.ns)])
    [] tag = "id" ->
         new(h, [Node("EXPR_ID") EXCEPT !.name = t[2], !.type = unkn,
                                        !.flags = {"NF_UNKNOWN"}])
    [] tag = "int" ->
         new(h, [Node("EXPR_INTLIT") EXCEPT !.intval = U64(0, 0, 0, t[2]),
                                            !.type = unkn])
    [] tag \in {"assign", "binop"} ->
         LET l == Build(h, t[3])
             r == Build(l.h, t[4])
             hh == RV(RV(r.h, r.n), l.n)
         IN new(hh, [Node(IF tag = "assign" THEN "EXPR_ASSIGN" ELSE "EXPR_BINOP")
                       EXCEPT !.op = t[2], !.left = l.n, !.right = r.n,
                              !.type = void, !.flags = Unkn(hh, <<l.n, r.n>>)])
    [] tag = "prefixop" ->
         LET e == Build(h, t[3])
             hh == RV(e.h, e.n)
         IN new(hh, [Node("EXPR_PREFIXOP") EXCEPT !.op = t[2], !.expr = e.n,
                       !.type = unkn, !.flags = Unkn(hh, <<e.n>>)])
    [] tag = "if" ->
         LET c == Build(h, t[2])
             th == Build(RV(c.h, c.n), t[3])
             el == Build(th.h, t[4])
         IN new(el.h, [Node("EXPR_IF") EXCEPT !.cond = c.n, !.thenb = th.n,
                         !.elseb = el.n, !.type = void,
                         !.flags = Unkn(el.h, <<c.n, th.n, el.n>>)])
    [] tag = "call" ->
         LET r == Build(h, t[2])
             as == BuildSeq(r.h, t[3], 1)
             hh == RVs(as.h, as.ns)
         IN new(hh, [Node("EXPR_CALL") EXCEPT !.recv = r.n, !.args = as.ns,
                       !.type = unkn, !.flags = Unkn(hh, <<r.n>> \o as.ns)])
    [] tag = "primid" ->
         new(h, [Node("EXPR_ID") EXCEPT !.name = t[2], !.type = unkn,
                                        !.ref = PrimId(t[2])])
    [] tag = "return" ->
         LET v == Build(h, t[2])
             hh == IF v.n = 0 THEN v.h ELSE RV(v.h, v.n)
         IN new(hh, [Node("EXPR_RETURN") EXCEPT !.value = v.n, !.type = void,
                                               !.flags = Unkn(hh, <<v.n>>)])
    [] tag = "unit" ->
         LET cs == BuildSeq(h, t[2], 1)
         IN new(cs.h, [Node("NODE_UNIT") EXCEPT !.children = cs.ns])

\* the package's table of definitions: the functions and named types of
\* the unit
PkgDefs(h, unit) ==
  LET cs == h[unit].children
      nameof(n) == IF h[n].kind = "STMT_TYPEDEF" THEN h[h[n].type].name ELSE h[n].name
      nodeof(n) == IF h[n].kind = "STMT_TYPEDEF" THEN h[n].type ELSE n
      top == {i \in 1..Len(cs) : h[cs[i]].recvt = 0}
      names == {nameof(cs[i]) : i \in top}
  IN [nm \in names |->
        nodeof(cs[CHOOSE i \in top : nameof(cs[i]) = nm])]

\* references to a local of the same function that the parser resolved:
\* ref is set and the unknown mark is gone from the identifier
PreResolve(h) ==
  LET locals(nm) == {m \in 1..Len(h) : nodekind_islocal(h[m].kind) /\ h[m].name = nm}
  IN [n \in 1..Len(h) |->
        IF h[n].kind = "EXPR_ID" /\ Cardinality(locals(h[n].name)) = 1
        THEN [h[n] EXCEPT !.ref = CHOOSE m \in locals(h[n].name) : TRUE,
                          !.flags = @ \ {"NF_UNKNOWN"}]
        ELSE h[n]]

\* the state of the pass before typecheck is called on the program
CkStart(program, resolved, intsize) ==
  LET b == Build(PrimNodes, program)
      h == IF resolved THEN PreResolve(b.h) ELSE b.h
  IN [pc |-> "start", unit |-> b.n, i |-> 0, nodes0 |-> h,
      a |-> typecheck_t(h, PkgDefs(h, b.n), intsize, "keep")]

TPrim(name) == <<"prim", name>>
Field(name, T) == <<"field", name, T, None>>
Param(name, T) == <<"param", name, T, None>>
Use(name, args) == <<"use", <<"named", name>>, args>>
ArrayLen == 3

\* type Foo<T> { a T; b T }
TypeFoo ==
  <<"typedef", <<"tstruct", "Foo", <<"T">>,
                 <<Field("a", <<"ph", "T">>), Field("b", <<"ph", "T">>)>> >> >>
\* type Bar { v int }
TypeBar == <<"typedef", <<"struct", "Bar", <<Field("v", TPrim("int"))>> >> >>

\* fun f(p int) { D x T = 1; A1 = 2; A2 = 3 }; type Bar { v int }
Prog_assign(D, T, A1, A2) ==
  <<"unit", <<
    <<"fun", "f", << <<"param", "p", <<"prim", "int">>, None>> >>, <<"prim", "void">>,
      <<"block", <<
         <<D, "x", T, <<"int", 1>>>>,
         <<"assign", "=", <<"id", A1>>, <<"int", 2>>>>,
         <<"assign", "=", <<"id", A2>>, <<"int", 3>>>> >> >> >>,
    TypeBar >> >>

AssignPrograms ==
  {Prog_assign(D, T, A1, A2) :
     D \in {"let", "var"},
     T \in {<<"prim", "unknown">>, <<"prim", "int">>, <<"prim", "i8">>},
     A1 \in {"x", "p", "y", "_"}, A2 \in {"x", "p"}}

InitAssign ==
  /\ ck \in {CkStart(P, r, 8) : P \in AssignPrograms, r \in BOOLEAN}
  /\ tc = Idle /\ lit = Idle /\ lay = Idle

\* typecheck: the preamble, up to the first statement of the unit, or to the
\* return when a map cannot be initialized
CkBegin ==
  /\ ck.pc = "start"
  /\ ck' = IF typecheck_maps(ck.a).err # ErrNone
           THEN [ck EXCEPT !.pc = "done", !.a = typecheck_maps(@)]
           ELSE [ck EXCEPT !.pc = "stmts", !.i = 1,
                           !.a = typecheck_begin(typecheck_maps(@), ck.unit)]
  /\ UNCHANGED <<tc, lit, lay>>

\* typecheck: stmt on the next child of the unit
CkStmt ==
  /\ ck.pc = "stmts"
  /\ ck.i <= Len(ck.a.nodes[ck.unit].children)
  /\ ck' = [ck EXCEPT !.i = @ + 1,
                      !.a = check("stmt", @, ck.a.nodes[ck.unit].children[ck.i])]
  /\ UNCHANGED <<tc, lit, lay>>

\* typecheck: after the last statement
CkEnd ==
  /\ ck.pc = "stmts"
  /\ ck.i > Len(ck.a.nodes[ck.unit].children)
  /\ ck' = [ck EXCEPT !.pc = "postanalyze", !.a = typecheck_end(@)]
  /\ UNCHANGED <<tc, lit, lay>>

\* postanalyze: one pass of the loop over the map, in the order of the
\* map's table: any entry that is not done may be the first one met
CkPostanalyze ==
  /\ ck.pc = "postanalyze"
  /\ \E n \in postanalyze_todo(ck.a) :
       ck' = [ck EXCEPT !.a = postanalyze_entry(@, n)]
  /\ UNCHANGED <<tc, lit, lay>>

\* postanalyze: the pass that meets only entries that are done; typecheck
\* leaves the package scope and returns
CkReturn ==
  /\ ck.pc = "postanalyze"
  /\ postanalyze_todo(ck.a) = {}
  /\ ck' = [ck EXCEPT !.pc = "done", !.a = leave_scope(@)]
  /\ UNCHANGED <<tc, lit, lay>>

NextCk == CkBegin \/ CkStmt \/ CkEnd \/ CkPostanalyze \/ CkReturn

SpecAssign == InitAssign /\ [][NextCk]_vars

----------------------------------------------------------------------------
\* Properties of the checker proper

Range(f) == {f[i] : i \in DOMAIN f}
Checking == ck.pc # "idle"
CkNodes == 1..Len(ck.a.nodes)

\* the assignments whose rule ran and whose left side is an identifier that
\* refers to a definition
AssignsToId ==
  {n \in CkNodes :
     /\ ck.a.nodes[n].kind = "EXPR_ASSIGN" /\ n \in Range(ck.a.ran)
     /\ ck.a.nodes[ck.a.nodes[n].left].kind = "EXPR_ID"
     /\ ck.a.nodes[ck.a.nodes[n].left].name # "_"
     /\ ck.a.nodes[ck.a.nodes[n].left].ref # 0}
AssignTarget(n) == ck.a.nodes[ck.a.nodes[ck.a.nodes[n].left].ref]

\* the assignment n was rejected with "cannot assign to let "x""
RejectedAsLet(n) ==
  LET id == ck.a.nodes[n].left IN
    \E i \in 1..Len(ck.a.diags) :
      ck.a.diags[i] = [kind |-> "DIAG_ERR", node |-> id,
                       msg |-> Msg("cannot assign to %s \"%s\"",
                                   <<"let", ck.a.nodes[id].name>>)]

\* no diagnostic names the target of the assignment n
AcceptedTarget(n) ==
  \A i \in 1..Len(ck.a.diags) : ck.a.diags[i].node # ck.a.nodes[n].left

\* C10: an assignment whose left side is an identifier referring to a let
\* is rejected with "cannot assign to let "x""; an identifier referring to
\* a var or to a parameter that is not this is accepted as a target.
C10_AssignTargets ==
  Checking =>
    \A n \in AssignsToId :
      /\ AssignTarget(n).kind = "EXPR_LET" => RejectedAsLet(n)
      /\ (\/ AssignTarget(n).kind = "EXPR_VAR"
          \/ (AssignTarget(n).kind = "EXPR_PARAM" /\ ~AssignTarget(n).isthis))
         => AcceptedTarget(n)

\* a pass that accepted an assignment to a parameter and rejected one to a let
C10_Witness ==
  /\ Checking /\ ck.pc = "done"
  /\ \E n \in AssignsToId : AssignTarget(n).kind = "EXPR_PARAM" /\ AcceptedTarget(n)
  /\ \E n \in AssignsToId : AssignTarget(n).kind = "EXPR_LET" /\ RejectedAsLet(n)

----------------------------------------------------------------------------
\* Conditions that narrow optionals

Id(name) == <<"id", name>>
Not(e) == <<"prefixop", "!", e>>
Bin(op, l, r) == <<"binop", op, l, r>>
LetY(kind) == <<kind, "y", <<"prim", "unknown">>, Id("x")>>

\* fun f(x ?T, b bool, c bool) { if COND { THEN } else { ELSE }; x };
\* type Bar { v int }
Prog_if(T, cond, thenb, elseb) ==
  <<"unit", <<
    <<"fun", "f",
      << <<"param", "x", <<"optional", <<"prim", T>>>>, None>>,
         <<"param", "b", <<"prim", "bool">>, None>>,
         <<"param", "c", <<"prim", "bool">>, None>> >>,
      <<"prim", "void">>,
      <<"block", << <<"if", cond, <<"block", thenb>>, elseb>>, Id("x") >> >> >>,
    TypeBar >> >>

\* conditions on the optional x alone
NarrowConds == {Id("x"), Not(Id("x")), Not(Not(Id("x")))}

\* conditions with a definition, "!" or "||"
MixConds ==
  {LetY("let"), LetY("var"), Not(LetY("let")),
   Bin("&&", LetY("let"), Id("b")), Bin("||", LetY("var"), Id("b")),
   Bin("&&", Id("b"), Not(LetY("let"))),
   Bin("&&", LetY("let"), Bin("==", Id("b"), Not(Id("c")))),
   Bin("&&", LetY("var"), Bin("==", Id("b"), Bin("||", Id("b"), Id("c")))),
   Bin("&&", LetY("let"), Bin("==", Id("b"), Id("c"))),
   Bin("||", Id("x"), Id("b")), Bin("&&", Id("x"), Not(Id("b"))),
   Bin("||", Id("b"), Not(Id("c")))}

ThenBodies ==
  {<<Id("x")>>, <<Id("x"), Id("x")>>,
   << <<"if", Id("b"), <<"block", <<Id("x")>>>>, None>> >>}
ElseBodies == {None, <<"block", <<Id("x")>>>>}

IfPrograms ==
  {Prog_if(T, c, t, e) :
     T \in {"int", "i8"}, c \in NarrowConds, t \in ThenBodies, e \in ElseBodies}
  \cup {Prog_if("int", c, <<Id("x"), Id("y")>>, e) : c \in MixConds, e \in ElseBodies}

InitIf ==
  /\ ck \in {CkStart(P, FALSE, s) : P \in IfPrograms, s \in IntSizes}
  /\ tc = Idle /\ lit = Idle /\ lay = Idle

SpecIf == InitIf /\ [][NextCk]_vars

----------------------------------------------------------------------------
\* Declarations with types: templates and their uses

\* the types the aliases stand for: Nope is not defined, the last use has
\* an argument too many
AliasedTypes ==
  {TPrim("int"), <<"optional", TPrim("int")>>, <<"array", TPrim("int"), ArrayLen>>,
   <<"named", "Bar">>, <<"named", "Nope">>,
   Use("Foo", <<TPrim("int")>>), Use("Foo", << <<"named", "Bar">> >>),
   Use("Foo", << <<"array", TPrim("int"), ArrayLen>> >>),
   Use("Foo", <<TPrim("int"), TPrim("int")>>)}

TypeAlias(name, T) == <<"typedef", <<"alias", name, T>> >>

\* type Foo<T> {...}; type P = X1; type Q = X2; type R = X3;
\* fun f(p P, q Q) { p }; type Bar {...}
Prog_type(X1, X2, X3) ==
  <<"unit", <<
    TypeFoo, TypeAlias("P", X1), TypeAlias("Q", X2), TypeAlias("R", X3),
    <<"fun", "f", <<Param("p", <<"named", "P">>), Param("q", <<"named", "Q">>)>>,
      TPrim("void"), <<"block", <<Id("p")>> >> >>,
    TypeBar >> >>

TypePrograms ==
  {Prog_type(X1, X2, X3) :
     X1 \in AliasedTypes, X2 \in AliasedTypes,
     X3 \in {TPrim("int"), Use("Foo", <<TPrim("int")>>),
             Use("Foo", << <<"named", "Bar">> >>)}}

InitType ==
  /\ ck \in {CkStart(P, FALSE, s) : P \in TypePrograms, s \in IntSizes}
  /\ tc = Idle /\ lit = Idle /\ lay = Idle

SpecType == InitType /\ [][NextCk]_vars

----------------------------------------------------------------------------
\* Aliases of aliases

\* what an alias stands for: an alias by name, or a type that is not one
AliasReferents ==
  {<<"named", "A">>, <<"named", "B">>, <<"named", "C">>, TPrim("int"),
   <<"optional", TPrim("int")>>}

AliasDefs(X1, X2, X3) == <<TypeAlias("A", X1), TypeAlias("B", X2), TypeAlias("C", X3)>>
FunOfAliases ==
  <<"fun", "f", <<Param("p", <<"named", "A">>), Param("q", <<"named", "C">>)>>,
    TPrim("void"), <<"block", <<Id("p")>> >> >>

\* type A = X1; type B = X2; type C = X3; fun f(p A, q C) { p }, with the
\* function before or after the types, and type Bar { v int }
Prog_alias(X1, X2, X3, funfirst) ==
  <<"unit", (IF funfirst THEN <<FunOfAliases>> \o AliasDefs(X1, X2, X3)
             ELSE AliasDefs(X1, X2, X3) \o <<FunOfAliases>>) \o <<TypeBar>> >>

AliasPrograms ==
  {Prog_alias(X1, X2, X3, ff) :
     X1 \in AliasReferents, X2 \in AliasReferents, X3 \in AliasReferents,
     ff \in BOOLEAN}

InitAlias ==
  /\ ck \in {CkStart(P, FALSE, 8) : P \in AliasPrograms}
  /\ tc = Idle /\ lit = Idle /\ lay = Idle

SpecAlias == InitAlias /\ [][NextCk]_vars

----------------------------------------------------------------------------
\* "if" used as a value and as a statement

BranchBodies == {<<>>, <<Id("i")>>, <<Id("x")>>, <<Id("b")>>}
ValueElses == {None} \cup {<<"block", body>> : body \in BranchBodies}

\* fun f(x ?int, b bool, i int) { let v = if C {T} else E; v }, or with
\* the "if" as a statement: { if C {T} else E; i }; type Bar { v int }
Prog_ifvalue(asvalue, cond, thenb, elseb) ==
  LET ife == <<"if", cond, <<"block", thenb>>, elseb>> IN
  <<"unit", <<
    <<"fun", "f",
      <<Param("x", <<"optional", TPrim("int")>>), Param("b", TPrim("bool")),
        Param("i", TPrim("int"))>>,
      TPrim("void"),
      <<"block", IF asvalue THEN << <<"let", "v", TPrim("unknown"), ife>>, Id("v") >>
                 ELSE <<ife, Id("i")>> >> >>,
    TypeBar >> >>

IfValuePrograms ==
  {Prog_ifvalue(v, c, t, e) :
     v \in BOOLEAN, c \in {Id("b"), Id("x")}, t \in BranchBodies, e \in ValueElses}

InitIfValue ==
  /\ ck \in {CkStart(P, FALSE, 8) : P \in IfValuePrograms}
  /\ tc = Idle /\ lit = Idle /\ lay = Idle

SpecIfValue == InitIfValue /\ [][NextCk]_vars

----------------------------------------------------------------------------
\* Binary operators

AssignOps ==
  {"=", "+=", "-=", "*=", "/=", "%=", "&=", "|=", "^=", "<<=", ">>="}
ValueOps ==
  {"+", "-", "*", "/", "%", "&", "|", "^", "<<", ">>", "&&", "||",
   "==", "!=", "<", ">", "<=", ">="}
BinaryOps == ValueOps \cup AssignOps

\* the types an operand is given: every primitive type and, of int, the
\* optional, the references, the pointer, the slices, the array and an
\* alias; a struct, and aliases of a float and of the struct
OperandTypes ==
  {TPrim(PrimNames[i]) : i \in 1..Len(PrimNames)}
  \cup {<<w, TPrim("int")>> : w \in {"optional", "ref", "mutref", "ptr", "slice", "mutslice"}}
  \cup {<<"array", TPrim("int"), ArrayLen>>,
        <<"struct", "Bar", <<Field("v", TPrim("int"))>> >>,
        <<"alias", "A", TPrim("int")>>, <<"alias", "A", TPrim("f64")>>,
        <<"alias", "A", <<"alias", "B", TPrim("uint")>> >>,
        <<"alias", "A", <<"struct", "Bar", <<Field("v", TPrim("int"))>> >> >>,
        <<"alias", "A", <<"ref", TPrim("int")>> >>}

\* one call of type_has_binop(c, t, op) to come
HasBinopInit ==
  \E T \in OperandTypes, op \in BinaryOps, sz \in IntSizes :
    LET b == Build(PrimNodes, T) IN
      tc = [pc |-> "has_binop", h |-> b.h, t |-> b.n, op |-> op,
            intsize |-> sz, res |-> FALSE]

HasBinopCall ==
  /\ tc.pc = "has_binop"
  /\ tc' = [tc EXCEPT !.pc = "has_binop_done",
                      !.res = type_has_binop(Compiler(tc.intsize), tc.h, tc.t, tc.op)]
  /\ UNCHANGED <<lit, lay, ck>>

\* type Bar { v int }
\* fun f(b bool, x ?int, i int, u u8, g f64, s Bar, r &int, m mut&int, p *int) {
\*   L op L; i }
Prog_binop(L, op) ==
  <<"unit", <<
    TypeBar,
    <<"fun", "f",
      <<Param("b", TPrim("bool")), Param("x", <<"optional", TPrim("int")>>),
        Param("i", TPrim("int")), Param("u", TPrim("u8")), Param("g", TPrim("f64")),
        Param("s", <<"named", "Bar">>), Param("r", <<"ref", TPrim("int")>>),
        Param("m", <<"mutref", TPrim("int")>>), Param("p", <<"ptr", TPrim("int")>>)>>,
      TPrim("void"),
      <<"block", <<Bin(op, Id(L), Id(L)), Id("i")>> >> >> >> >>

BinopPrograms ==
  {Prog_binop(L, op) :
     L \in {"b", "x", "i", "u", "g", "s", "r", "m", "p"}, op \in ValueOps}

InitBinop ==
  \/ HasBinopInit /\ lit = Idle /\ lay = Idle /\ ck = Idle
  \/ /\ ck \in {CkStart(P, FALSE, s) : P \in BinopPrograms, s \in IntSizes}
     /\ tc = Idle /\ lit = Idle /\ lay = Idle

NextBinop == HasBinopCall \/ NextCk
SpecBinop == InitBinop /\ [][NextBinop]_vars

----------------------------------------------------------------------------
\* Structs with fields of struct type

TypeStruct(name, fields) == <<"typedef", <<"struct", name, fields>> >>

\* the types of the fields: a pointer makes the struct an owner, a name
\* makes it depend on the struct named
FieldTypesOfA == {TPrim("int"), <<"ptr", TPrim("int")>>, <<"named", "A">>,
                  <<"named", "B">>, <<"named", "C">>}
FieldTypesOfB == {TPrim("int"), <<"ptr", TPrim("int")>>, <<"named", "A">>,
                  <<"named", "C">>}
FieldTypesOfC == {TPrim("int"), <<"ptr", TPrim("int")>>, <<"named", "A">>}

\* type A { f X1; g X2 }; type B { f Y1; g Y2 }; type C { f Z }
Prog_structs(X1, X2, Y1, Y2, Z) ==
  <<"unit", <<
    TypeStruct("A", <<Field("f", X1), Field("g", X2)>>),
    TypeStruct("B", <<Field("f", Y1), Field("g", Y2)>>),
    TypeStruct("C", <<Field("f", Z)>>) >> >>

StructPrograms ==
  {Prog_structs(X1, X2, Y1, Y2, Z) :
     X1 \in FieldTypesOfA, X2 \in FieldTypesOfA,
     Y1 \in FieldTypesOfB, Y2 \in FieldTypesOfB, Z \in FieldTypesOfC}

InitStructs ==
  /\ ck \in {CkStart(P, FALSE, 8) : P \in StructPrograms}
  /\ tc = Idle /\ lit = Idle /\ lay = Idle

\* the loop of postanalyze runs to its end: a pass that can be made is made
SpecStructs ==
  InitStructs /\ [][NextCk]_vars /\ WF_vars(CkPostanalyze) /\ WF_vars(CkReturn)

----------------------------------------------------------------------------
\* Properties of conditions

\* the nodes of the expression n: n and everything below it
RECURSIVE Subtree(_, _), SubtreeAll(_, _, _)
SubtreeAll(h, ns, i) ==
  IF i > Len(ns) THEN {} ELSE Subtree(h, ns[i]) \cup SubtreeAll(h, ns, i + 1)
Subtree(h, n) == {n} \cup SubtreeAll(h, ast_children(h, n), 1)

\* the "if" expressions whose rule ran
RanIfs == {n \in CkNodes : ck.a.nodes[n].kind = "EXPR_IF" /\ n \in Range(ck.a.ran)}

IsNot(N) == N.kind = "EXPR_PREFIXOP" /\ N.op = "!"
IsOr(N) == N.kind = "EXPR_BINOP" /\ N.op = "||"
IsNarrowingDef(N) == N.kind \in {"EXPR_LET", "EXPR_VAR"} /\ "NF_NARROWED" \in N.flags

\* the identifier an "if x" or "if !x" tests (0: the condition has another
\* form) provided the narrower narrowed it
CondVar(n) ==
  LET c == ck.a.nodes[n].cond
      x == IF IsNot(ck.a.nodes[c]) THEN ck.a.nodes[c].expr ELSE c
  IN IF ck.a.nodes[x].kind = "EXPR_ID" /\ "NF_NARROWED" \in ck.a.nodes[x].flags /\
        ck.a.nodes[x].ref # 0
     THEN x ELSE 0
CondNegated(n) == IsNot(ck.a.nodes[ck.a.nodes[n].cond])

\* the resolved references to the name of x in the expression e
RefsIn(e, x) ==
  {m \in Subtree(ck.a.nodes, e) :
     /\ ck.a.nodes[m].kind = "EXPR_ID" /\ ck.a.nodes[m].ref # 0
     /\ ck.a.nodes[m].name = ck.a.nodes[x].name}

\* the T of the ?T the variable tested by n was declared with
CondElemType(n) ==
  ck.a.nodes[ck.a.nodes[ck.a.nodes[CondVar(n)].ref].type].elem

\* C5: for "if x" with x of type ?T and the narrower run, every reference
\* to x resolved in the then-branch has type T and every one resolved in the
\* else-branch has type void; for "if !x" the two are reversed.
C5_Narrowing ==
  Checking =>
    \A n \in RanIfs :
      CondVar(n) # 0 =>
        LET N == ck.a.nodes[n]
            T == CondElemType(n)
            void == PrimId("void")
        IN /\ \A m \in RefsIn(N.thenb, CondVar(n)) :
                ck.a.nodes[m].type = IF CondNegated(n) THEN void ELSE T
           /\ N.elseb # 0 =>
                \A m \in RefsIn(N.elseb, CondVar(n)) :
                  ck.a.nodes[m].type = IF CondNegated(n) THEN T ELSE void

\* a finished pass without errors over an "if !x" whose two branches both
\* refer to x
C5_Witness ==
  /\ Checking /\ ck.pc = "done" /\ ck.a.errcount = 0
  /\ \E n \in RanIfs :
       /\ CondVar(n) # 0 /\ CondNegated(n) /\ ck.a.nodes[n].elseb # 0
       /\ RefsIn(ck.a.nodes[n].thenb, CondVar(n)) # {}
       /\ RefsIn(ck.a.nodes[n].elseb, CondVar(n)) # {}
       /\ ck.a.nodes[CondElemType(n)].kind \in {"int", "i8"}

\* the diagnostic of the narrower that rejects the condition of n
RejectedMix(n) ==
  \E i \in 1..Len(ck.a.diags) :
    /\ ck.a.diags[i].kind = "DIAG_ERR"
    /\ ck.a.diags[i].msg.fmt =
         "cannot use type-narrowing %s definition with '%s' operation"
    /\ ck.a.diags[i].msg.args[1] \in {"let", "var"}
    /\ ck.a.diags[i].msg.args[2] \in {"!", "||"}
    /\ ck.a.diags[i].node \in Subtree(ck.a.nodes, ck.a.nodes[n].cond)

\* the nodes of a condition the narrower walks over: it goes below "!",
\* "&&" and "||" and nowhere else
RECURSIVE NarrowWalk(_, _)
NarrowWalk(h, x) ==
  {x} \cup
  (IF IsNot(h[x]) THEN NarrowWalk(h, h[x].expr)
   ELSE IF h[x].kind = "EXPR_BINOP" /\ h[x].op \in {"&&", "||"}
   THEN NarrowWalk(h, h[x].left) \cup NarrowWalk(h, h[x].right)
   ELSE {})

HasBoth(S) ==
  /\ \E m \in S : IsNarrowingDef(ck.a.nodes[m])
  /\ \E m \in S : IsNot(ck.a.nodes[m]) \/ IsOr(ck.a.nodes[m])

\* C6 as stated: a condition with both a type-narrowing let/var definition
\* and a "||" or "!" anywhere in it is rejected by the narrower; one with
\* only one of the two is not.
C6_MixAnywhere ==
  Checking =>
    \A n \in RanIfs :
      RejectedMix(n) <=> HasBoth(Subtree(ck.a.nodes, ck.a.nodes[n].cond))

\* C6, amended: a condition is rejected by the narrower with "cannot use
\* type-narrowing let|var definition with '<op>' operation" exactly when a
\* type-narrowing definition and a "||" or "!" are both among the nodes
\* the narrower walks over (the condition and, below "!", "&&" and "||",
\* their operands).
C6_MixOnWalk ==
  Checking =>
    \A n \in RanIfs :
      RejectedMix(n) <=> HasBoth(NarrowWalk(ck.a.nodes, ck.a.nodes[n].cond))

\* a finished pass that rejected a condition with a definition under "||"
C6_Witness ==
  /\ Checking /\ ck.pc = "done"
  /\ \E n \in RanIfs :
       /\ RejectedMix(n)
       /\ \E m \in NarrowWalk(ck.a.nodes, ck.a.nodes[n].cond) : IsOr(ck.a.nodes[m])
       /\ \E m \in NarrowWalk(ck.a.nodes, ck.a.nodes[n].cond) :
            IsNarrowingDef(ck.a.nodes[m])

----------------------------------------------------------------------------
\* Properties of the pass over declarations

Count(s, x) == Cardinality({i \in 1..Len(s) : s[i] = x})
HasChecked(n) == "NF_CHECKED" \in ck.a.nodes[n].flags

\* the nodes a node refers to through its slots
Refs(h, n) ==
  LET N == h[n] IN
    ({N.type, N.elem, N.result, N.recv, N.init, N.lenexpr, N.left, N.right,
      N.expr, N.cond, N.thenb, N.elseb, N.value, N.body}
     \cup Range(N.children) \cup Range(N.fields) \cup Range(N.params)
     \cup Range(N.args) \cup Range(N.templateparams)) \ {0}

\* the nodes of the AST: what the unit refers to, directly or not
RECURSIVE ReachFrom(_, _)
ReachFrom(h, S) ==
  LET T == S \cup UNION {Refs(h, n) : n \in S}
  IN IF T = S THEN S ELSE ReachFrom(h, T)
Reached == ReachFrom(ck.a.nodes, {ck.unit})

\* C1: after typecheck, any two user types reached by checking (struct,
\* array, function, pointer, ref, mut-ref, slice, mut-slice, optional,
\* template instance) with the same structural type id are the same node.
UserTypeKinds ==
  {"struct", "array", "fun", "ptr", "ref", "mutref", "slice", "mutslice", "optional"}
CheckedUserTypes ==
  {t \in Reached : ck.a.nodes[t].kind \in UserTypeKinds /\ HasChecked(t)}
C1_Interning ==
  (Checking /\ ck.pc = "done") =>
    \A u \in CheckedUserTypes : \A v \in CheckedUserTypes :
      TypeIdOf(ck.a.nodes, u) = TypeIdOf(ck.a.nodes, v) => u = v

\* the uses of templates checked so far
Uses == {ck.a.uses[i] : i \in 1..Len(ck.a.uses)}
SameUse(u, v) == u.template = v.template /\ u.ids = v.ids

\* C2: the uses of a template with the same argument types that are checked
\* outside of a template with no error reported resolve to one and the same
\* instance node, and the map of instances holds at most one instance for a
\* template and a tuple of argument type ids.
C2_Memoized ==
  Checking =>
    /\ \A u \in Uses : \A v \in Uses :
         (u.errs = 0 /\ v.errs = 0 /\ SameUse(u, v)) =>
           /\ u.inst # 0 /\ "NF_TEMPLATEI" \in ck.a.nodes[u.inst].flags
           /\ u.inst = v.inst
    /\ \A i \in 1..Len(ck.a.templateimap) : \A j \in 1..Len(ck.a.templateimap) :
         ck.a.templateimap[i].key = ck.a.templateimap[j].key => i = j

\* two uses of a template with the same arguments became one instance and
\* a use with other arguments another
C2_Witness ==
  /\ Checking /\ ck.pc = "done"
  /\ \E u \in Uses : \E v \in Uses : \E w \in Uses :
       /\ u.tt # v.tt /\ SameUse(u, v) /\ u.inst # 0 /\ u.inst = v.inst
       /\ w.template = u.template /\ w.ids # u.ids
       /\ w.inst # 0 /\ w.inst # u.inst

\* C3: the check entries (exprp, stmt, type) on a node that carries the
\* checked flag change nothing: no node, scope, context stack or map, and no
\* diagnostic; and a node's rule was entered from them at most as many
\* times as its flag was set.
C3_CheckedNoOp ==
  Checking =>
    /\ \A n \in CkNodes :
         HasChecked(n) =>
           /\ nodekind_isexpr(ck.a.nodes[n].kind) =>
                exprp(ck.a, n) = ck.a /\ stmt(ck.a, n) = ck.a
           /\ ck.a.nodes[n].kind = "STMT_TYPEDEF" => stmt(ck.a, n) = ck.a
           /\ nodekind_istype(ck.a.nodes[n].kind) => type(ck.a, n) = TR(ck.a, n)
    /\ \A n \in CkNodes : Count(ck.a.ran, n) <= Count(ck.a.marked, n)

\* a type that two names resolved to and whose rule ran once, and a node
\* whose flag was cleared and set again and whose rule ran for each setting
C3_Witness ==
  /\ Checking /\ ck.pc = "done"
  /\ \E u \in CkNodes : \E v \in CkNodes :
       /\ u # v /\ ck.a.nodes[u].kind = "unresolved" /\ ck.a.nodes[v].kind = "unresolved"
       /\ ck.a.nodes[u].resolved # 0 /\ ck.a.nodes[u].resolved = ck.a.nodes[v].resolved
       /\ Count(ck.a.ran, ck.a.nodes[u].resolved) = 1
  /\ \E n \in CkNodes : Count(ck.a.marked, n) = 2 /\ Count(ck.a.ran, n) = 2

\* C9: after typecheck completes with no error diagnostic, every expression
\* node the pass reached has a type, and that type (for a local: the type it
\* is declared with) is not of kind unresolved.
C9_Resolved ==
  (Checking /\ ck.pc = "done" /\ ck.a.errcount = 0) =>
    \A n \in CkNodes :
      (nodekind_isexpr(ck.a.nodes[n].kind) /\ n \in Range(ck.a.ran)) =>
        /\ ck.a.nodes[n].type # 0
        /\ ck.a.nodes[ck.a.nodes[n].type].kind # "unresolved"


----------------------------------------------------------------------------
\* Alias cycles

\* the aliases of the program and, by the names the source gives, the
\* alias an alias stands for (0: not an alias)
Aliases0 == {t \in DOMAIN ck.nodes0 : ck.nodes0[t].kind = "alias"}
Referent0(t) ==
  LET e == ck.nodes0[ck.nodes0[t].elem]
      named == {x \in Aliases0 : ck.nodes0[x].name = e.name}
  IN IF e.kind = "unresolved" /\ named # {} THEN CHOOSE x \in named : TRUE ELSE 0

\* the alias reached from t in k steps of the source's referents
RECURSIVE Referent0K(_, _)
Referent0K(t, k) ==
  IF k = 0 \/ t = 0 THEN t ELSE Referent0K(Referent0(t), k - 1)
OnCycle0(t) == \E k \in 1..Cardinality(Aliases0) : Referent0K(t, k) = t
ReachesCycle0(t) ==
  \E k \in 0..Cardinality(Aliases0) :
    Referent0K(t, k) # 0 /\ OnCycle0(Referent0K(t, k))

\* the node reached from t in k steps of the referents after checking
RECURSIVE ElemK(_, _, _)
ElemK(h, t, k) ==
  IF k = 0 \/ h[t].kind # "alias" THEN t ELSE ElemK(h, h[t].elem, k - 1)
CycleReported == \E i \in DOMAIN ck.a.diags : ck.a.diags[i].msg.fmt = CycleMsg

\* C11: after checking, following the referents from any alias ends, after
\* at most as many steps as there are aliases, at a type that is not an
\* alias; from an alias that is on a cycle of the source, or leads to one,
\* it ends at the type unknown, and the cycle was reported.
C11_AliasCyclesCut ==
  (Checking /\ ck.pc = "done") =>
    \A t \in Aliases0 :
      LET end == ElemK(ck.a.nodes, t, Cardinality(Aliases0))
      IN /\ ck.a.nodes[end].kind # "alias"
         /\ ReachesCycle0(t) => end = PrimId("unknown") /\ CycleReported

\* a checked program in which two aliases stand for each other
C11_Witness ==
  /\ Checking /\ ck.pc = "done"
  /\ \E t \in Aliases0 : \E u \in Aliases0 :
       /\ t # u /\ Referent0(t) = u /\ Referent0(u) = t
       /\ unwrap_alias(ck.a.nodes, t) = PrimId("unknown")
       /\ unwrap_alias(ck.a.nodes, u) = PrimId("unknown")
       /\ CycleReported

----------------------------------------------------------------------------
\* The type of an "if"

\* the "if" nodes whose rule ran
CheckedIfs == {n \in CkNodes : ck.a.nodes[n].kind = "EXPR_IF" /\ Count(ck.a.ran, n) > 0}
ThenType(n) == ck.a.nodes[ck.a.nodes[n].thenb].type
ElseType(n) == ck.a.nodes[ck.a.nodes[n].elseb].type
BranchesDiagnosed(n) ==
  \E i \in DOMAIN ck.a.diags :
    /\ ck.a.diags[i].node = ck.a.nodes[n].elseb
    /\ ck.a.diags[i].msg.fmt = "incompatible types %s and %s in \"if\" branches"
\* t is the type tt, lifted into an optional unless it is one
LiftedFrom(t, tt) ==
  IF ck.a.nodes[tt].kind = "optional" THEN t = tt
  ELSE ck.a.nodes[t].kind = "optional" /\ ck.a.nodes[t].elem = tt

\* C12 as stated: an "if" that is not used as a value has type void; one
\* used as a value with an else branch and both branches of non-void type
\* has the type of its then branch, and the else type is assignable to it
\* or the branches are diagnosed; every other "if" used as a value has the
\* type of its then branch lifted into an optional.
C12_IfType ==
  (Checking /\ ck.pc = "done") =>
    \A n \in CheckedIfs :
      LET N == ck.a.nodes[n] IN
        IF "NF_RVALUE" \notin N.flags THEN N.type = PrimId("void")
        ELSE IF N.elseb # 0 /\ ThenType(n) # PrimId("void") /\
                ElseType(n) # PrimId("void")
        THEN /\ N.type = ThenType(n)
             /\ \/ type_isassignable(Compiler(ck.a.intsize), ck.a.nodes,
                                     ThenType(n), ElseType(n))
                \/ BranchesDiagnosed(n)
        ELSE LiftedFrom(N.type, ThenType(n))

\* C12: an "if" that is not used as a value has type void; one used as a
\* value with an else branch of non-void type has the type of its then
\* branch, and the else type is assignable to it or the branches are
\* diagnosed; every other "if" used as a value has the type of its then
\* branch lifted into an optional, an optional staying as it is.
C12_IfTypeElse ==
  (Checking /\ ck.pc = "done") =>
    \A n \in CheckedIfs :
      LET N == ck.a.nodes[n] IN
        IF "NF_RVALUE" \notin N.flags THEN N.type = PrimId("void")
        ELSE IF N.elseb # 0 /\ ElseType(n) # PrimId("void")
        THEN /\ N.type = ThenType(n)
             /\ \/ type_isassignable(Compiler(ck.a.intsize), ck.a.nodes,
                                     ThenType(n), ElseType(n))
                \/ BranchesDiagnosed(n)
        ELSE LiftedFrom(N.type, ThenType(n))

\* a checked "if" used as a value whose then branch is void and whose else
\* branch is not: its type is void and the branches are diagnosed
C12_Witness ==
  /\ Checking /\ ck.pc = "done"
  /\ \E n \in CheckedIfs :
       /\ "NF_RVALUE" \in ck.a.nodes[n].flags /\ ck.a.nodes[n].elseb # 0
       /\ ThenType(n) = PrimId("void") /\ ElseType(n) # PrimId("void")
       /\ ck.a.nodes[n].type = PrimId("void") /\ BranchesDiagnosed(n)

----------------------------------------------------------------------------
\* The operators of a type

\* the table of the operators a family of types supports
TableOps(family) ==
  LET arithmetic == {"+", "-", "*", "/", "%"}
      bitwise == {"&", "|", "^"}
      shifts == {"<<", ">>"}
      logical == {"&&", "||"}
      equality == {"==", "!="}
      comparisons == equality \cup {"<", ">", "<=", ">="}
      opassign(ops) == {o \o "=" : o \in ops}
  IN CASE family = "bool" -> logical \cup equality \cup {"="}
       [] family = "integer" ->
            arithmetic \cup bitwise \cup shifts \cup logical \cup comparisons
              \cup {"="} \cup opassign(arithmetic \cup bitwise \cup shifts)
       [] family = "float" ->
            arithmetic \cup logical \cup comparisons \cup {"="} \cup opassign(arithmetic)
       [] family \in {"struct", "pointer"} -> equality \cup {"="}
       [] OTHER -> {"="}

\* the family of a type: that of the type its aliases stand for
RECURSIVE Family(_, _)
Family(h, t) ==
  LET k == h[t].kind IN
  CASE k = "alias" -> Family(h, h[t].elem)
    [] k \in {"bool", "optional"} -> "bool"
    [] k \in SizedIntKinds \cup {"int", "uint"} -> "integer"
    [] k \in {"f32", "f64"} -> "float"
    [] k = "struct" -> "struct"
    [] k \in {"ptr", "ref"} -> "pointer"
    [] OTHER -> "other"

\* the binary operations whose rule ran, and the diagnostic of binop
CheckedBinops ==
  {n \in CkNodes : ck.a.nodes[n].kind = "EXPR_BINOP" /\ Count(ck.a.ran, n) > 0}
NoOperatorDiagnosed(n) ==
  \E i \in DOMAIN ck.a.diags :
    /\ ck.a.diags[i].node = n /\ ck.a.diags[i].kind = "DIAG_ERR"
    /\ ck.a.diags[i].msg.fmt = "type %s has no '%s' operator"
LeftType(n) == ck.a.nodes[ck.a.nodes[n].left].type

\* C13: type_has_binop returns true exactly for the operators the table
\* lists for the family of the type, and a checked binary operation whose
\* left operand has a type without the operator is diagnosed.
C13_OperatorTable ==
  /\ tc.pc = "has_binop_done" => (tc.res <=> tc.op \in TableOps(Family(tc.h, tc.t)))
  /\ (Checking /\ ck.pc = "done") =>
       \A n \in CheckedBinops :
         ck.a.nodes[n].op \notin TableOps(Family(ck.a.nodes, LeftType(n)))
           => NoOperatorDiagnosed(n)

\* a checked comparison of two references by "<", diagnosed
C13_Witness ==
  /\ Checking /\ ck.pc = "done"
  /\ \E n \in CheckedBinops :
       /\ ck.a.nodes[n].op = "<" /\ ck.a.nodes[LeftType(n)].kind = "ref"
       /\ NoOperatorDiagnosed(n)

----------------------------------------------------------------------------
\* The end of the pass

AllDone == \A n \in DOMAIN ck.a.postanalyze : ck.a.postanalyze[n] = 1
Draining == Checking /\ ck.pc = "postanalyze"
Drained == Checking /\ ck.pc = "done"
\* the struct nodes of the program
StructNodes == {n \in CkNodes : ck.a.nodes[n].kind = "struct"}

\* C14: the loop of postanalyze stops, whatever the map holds when it
\* starts and whatever is added to it on the way, and when it has stopped
\* every entry of the map is done.
C14_DrainTerminates == (Draining ~> Drained) /\ [](Drained => AllDone)

\* the loop has stopped with an entry in the map for a struct that was not
\* queued when it was checked (it is an owner), and with two structs in the
\* map each of which has a field of the other's type
C14_Witness ==
  /\ Drained /\ AllDone
  /\ \E n \in DOMAIN ck.a.postanalyze :
       LET fs == ck.a.nodes[n].fields IN
         \E i \in 1..Len(fs) : type_isptr(ck.a.nodes, ck.a.nodes[fs[i]].type)
  /\ \E n \in DOMAIN ck.a.postanalyze : \E m \in DOMAIN ck.a.postanalyze :
       /\ n # m
       /\ \E i \in 1..Len(ck.a.nodes[n].fields) :
            ck.a.nodes[ck.a.nodes[n].fields[i]].type = m
       /\ \E i \in 1..Len(ck.a.nodes[m].fields) :
            ck.a.nodes[ck.a.nodes[m].fields[i]].type = n
----------------------------------------------------------------------------
\* Functions of a unit that refer to each other

\* fun f() { F }; fun g() { G }; fun h() { H }; type Bar { v int }
Fun0(name, body) == <<"fun", name, <<>>, <<"prim", "void">>, <<"block", body>>>>
Prog_funs(F, G, H) ==
  <<"unit", <<Fun0("f", F), Fun0("g", G), Fun0("h", H), TypeBar>> >>

\* bodies that name a function of the unit, an integer, or nothing known
SiblingBodies ==
  {<<Id(x)>> : x \in {"f", "g", "h", "q"}} \cup {<< <<"int", 1>> >>}
    \cup {<<Id("g"), Id("h")>>, <<Id("h"), Id("f")>>}

FunsPrograms ==
  {Prog_funs(F, G, H) : F \in SiblingBodies, G \in SiblingBodies, H \in SiblingBodies}

InitFuns ==
  /\ ck \in {CkStart(P, FALSE, 8) : P \in FunsPrograms}
  /\ tc = Idle /\ lit = Idle /\ lay = Idle

SpecFuns == InitFuns /\ [][NextCk]_vars

----------------------------------------------------------------------------
\* Properties of the top-level hoist

Children == ck.a.nodes[ck.unit].children
TopFuns == {n \in Range(Children) : ck.a.nodes[n].kind = "EXPR_FUN"}
\* the place of the first run of the rule of n
FirstRun(n) == CHOOSE i \in 1..Len(ck.a.ran) : ck.a.ran[i] = n /\ \A j \in 1..(i - 1) : ck.a.ran[j] # n
HasRun(n) == n \in Range(ck.a.ran)
\* the identifiers whose rule ran and that name a function of the unit
SiblingIds ==
  {n \in CkNodes :
     /\ ck.a.nodes[n].kind = "EXPR_ID" /\ HasRun(n)
     /\ \E f \in TopFuns : ck.a.nodes[f].name = ck.a.nodes[n].name}
\* every function of the unit has its parent and is defined in the scope of
\* the unit
Hoisted ==
  \A f \in TopFuns :
    /\ ck.a.nodes[f].nsparent = ck.unit
    /\ scope_lookup(ck.a.scope, ck.a.nodes[f].name, 0) = f
\* nothing of the program has been checked
NothingChecked == ck.a.ran = <<>> /\ ck.a.marked = <<>>
\* an identifier that names a function of the unit refers to it, found in
\* the scope and not in the package, and no error is reported on it
SiblingsResolved ==
  \A n \in SiblingIds :
    /\ ck.a.nodes[n].ref \in TopFuns
    /\ ck.a.nodes[ck.a.nodes[n].ref].name = ck.a.nodes[n].name
    /\ "NF_VIS_PKG" \notin ck.a.nodes[ck.a.nodes[n].ref].flags
    /\ \A i \in 1..Len(ck.a.diags) :
         ck.a.diags[i].node = n => ck.a.diags[i].kind # "DIAG_ERR"

----------------------------------------------------------------------------
\* Blocks with a return

\* fun f(p int) R { S1; S2; S3 }; type Bar { v int }
Prog_block(R, S1, S2, S3) ==
  <<"unit", <<
    <<"fun", "f", <<Param("p", TPrim("int"))>>, TPrim(R),
      <<"block", <<S1, S2, S3>> >> >>,
    TypeBar >> >>

Return(v) == <<"return", v>>
BlockStmts ==
  {Return(<<"int", 1>>), Return(None), Id("p"), Id("q"),
   <<"let", "y", TPrim("int"), <<"int", 1>>>>,
   <<"block", <<Return(<<"int", 1>>), Id("p")>> >>}

BlockPrograms ==
  {Prog_block(R, S1, S2, S3) :
     R \in {"void", "int"}, S1 \in BlockStmts, S2 \in BlockStmts, S3 \in BlockStmts}

\* the children of the blocks of the heap h
BlockChildren(h) ==
  UNION {Range(h[n].children) : n \in {m \in DOMAIN h : h[m].kind = "EXPR_BLOCK"}}

\* the heap h in which the parser has counted a use of every statement of a
\* block
StmtsUsed(h) ==
  [n \in DOMAIN h |-> IF n \in BlockChildren(h) THEN [h[n] EXCEPT !.nuse = 1] ELSE h[n]]

\* the state of the pass before typecheck is called on the program, the
\* statements of blocks counted as used or not
CkWithNodes(s, h) == [s EXCEPT !.nodes0 = h, !.a.nodes = h]
CkUsed(s, used) == CkWithNodes(s, IF used THEN StmtsUsed(s.a.nodes) ELSE s.a.nodes)
CkStartUsed(program, used) == CkUsed(CkStart(program, FALSE, 8), used)

InitBlocks ==
  /\ ck \in {CkStartUsed(P, u) : P \in BlockPrograms, u \in BOOLEAN}
  /\ tc = Idle /\ lit = Idle /\ lay = Idle

SpecBlocks == InitBlocks /\ [][NextCk]_vars

----------------------------------------------------------------------------
\* Properties of the statements of a block

\* the blocks of the program whose rule ran: as an expression, or as the
\* body of a function whose rule ran
RanBlocks ==
  {n \in 1..Len(ck.nodes0) :
     /\ ck.nodes0[n].kind = "EXPR_BLOCK"
     /\ \/ HasRun(n)
        \/ \E f \in 1..Len(ck.nodes0) :
             ck.nodes0[f].kind = "EXPR_FUN" /\ ck.nodes0[f].body = n /\ HasRun(f)}
\* the statements of the block n as the parser left them
Stmts0(n) == ck.nodes0[n].children
\* the places of the return statements of the block n
Returns0(n) ==
  {k \in 1..Len(Stmts0(n)) : ck.nodes0[Stmts0(n)[k]].kind = "EXPR_RETURN"}
FirstReturn(n) == CHOOSE k \in Returns0(n) : \A j \in Returns0(n) : k <= j
WasMarked(m) == m \in Range(ck.a.marked)
\* the place at which the node m was marked as checked
FirstMark(m) == CHOOSE i \in 1..Len(ck.a.marked) : ck.a.marked[i] = m
\* the statements of n that were checked were checked in the order of the
\* source
StmtsInOrder(n) ==
  \A i \in 1..Len(Stmts0(n)) : \A j \in 1..Len(Stmts0(n)) :
    (i < j /\ WasMarked(Stmts0(n)[i]) /\ WasMarked(Stmts0(n)[j]))
      => FirstMark(Stmts0(n)[i]) < FirstMark(Stmts0(n)[j])
\* the statements of n after its first return were not checked and have no
\* uses, and n is marked as an exit
CutAtReturn(n) ==
  /\ \A j \in (FirstReturn(n) + 1)..Len(Stmts0(n)) :
       /\ ~WasMarked(Stmts0(n)[j]) /\ ~HasRun(Stmts0(n)[j])
       /\ ck.a.nodes[Stmts0(n)[j]].nuse = 0
  /\ "NF_EXIT" \in ck.a.nodes[n].flags
\* the statements of n up to its first return (all of them, without one)
\* were checked, unless an error stopped the checking
UpToReturn(n) ==
  LET last == IF Returns0(n) = {} THEN Len(Stmts0(n)) ELSE FirstReturn(n) IN
    ck.a.reported_error \/ \A j \in 1..last : WasMarked(Stmts0(n)[j])

\* C16: the statements of a block are checked in the order of the source,
\* and none after the first return of the block is checked: each of those
\* has its use count at zero and the block has the exit flag.
C16_BlockOrder ==
  Checking =>
    \A n \in RanBlocks :
      /\ StmtsInOrder(n)
      /\ UpToReturn(n)
      /\ Returns0(n) # {} => CutAtReturn(n)

\* a block whose second statement is a return, with a third statement that
\* the parser had counted as used, was checked without an error
C16_Witness ==
  /\ Checking /\ ~ck.a.reported_error
  /\ \E n \in RanBlocks :
       /\ Len(Stmts0(n)) = 3 /\ Returns0(n) # {} /\ FirstReturn(n) = 2
       /\ WasMarked(Stmts0(n)[1]) /\ WasMarked(Stmts0(n)[2])
       /\ ck.nodes0[Stmts0(n)[3]].nuse = 1
       /\ ck.a.nodes[Stmts0(n)[3]].nuse = 0

----------------------------------------------------------------------------
\* Programs with an error in the middle

\* fun f(p T1, r T2) { S1; S2 }; type S { a T3; b ?int }; fun g() { f };
\* type Bar { v int }
Prog_latch(T1, T2, S1, S2, T3) ==
  <<"unit", <<
    <<"fun", "f", <<Param("p", T1), Param("r", T2)>>, TPrim("void"),
      <<"block", <<S1, S2>> >> >>,
    TypeStruct("S", <<Field("a", T3), Field("b", <<"optional", TPrim("int")>>)>>),
    Fun0("g", <<Id("f")>>),
    TypeBar >> >>

\* types, one of them a name that nothing defines
LatchTypes == {TPrim("int"), <<"named", "Q">>, <<"optional", TPrim("int")>>}
\* statements, one of them a name that nothing defines
LatchStmts ==
  {Id("p"), Id("q"), <<"let", "y", TPrim("unknown"), Id("r")>>,
   <<"block", <<Id("q"), Id("p")>> >>, Bin("+", Id("q"), Id("p"))}

LatchPrograms ==
  {Prog_latch(T1, T2, S1, S2, T3) :
     T1 \in LatchTypes, T2 \in LatchTypes, S1 \in LatchStmts, S2 \in LatchStmts,
     T3 \in LatchTypes}

InitLatch ==
  /\ ck \in {CkStart(P, FALSE, 8) : P \in LatchPrograms}
  /\ tc = Idle /\ lit = Idle /\ lay = Idle

SpecLatch == InitLatch /\ [][NextCk]_vars

----------------------------------------------------------------------------
\* Properties of the error latch

Latched == Checking /\ ck.a.reported_error
\* the rules that ran after reported_error was set, in order
RanAfterLatch == SubSeq(ck.a.ran, ck.a.latched[1] + 1, Len(ck.a.ran))
\* the nodes marked as checked after reported_error was set, in order
MarkedAfterLatch == SubSeq(ck.a.marked, ck.a.latched[2] + 1, Len(ck.a.marked))
IsStmtOrExpr(n) ==
  nodekind_isexpr(ck.a.nodes[n].kind) \/ ck.a.nodes[n].kind = "STMT_TYPEDEF"
\* reported_error is not cleared by a step of typecheck
LatchKept == [][ck.a.reported_error => ck'.a.reported_error]_vars

\* C17 as stated: reported_error is never cleared, and once it is set the
\* rule of no statement or expression runs.
C17_ErrorLatch ==
  /\ LatchKept
  /\ [](Latched => \A i \in 1..Len(RanAfterLatch) : ~IsStmtOrExpr(RanAfterLatch[i]))

\* C17: reported_error is never cleared, and once it is set the rule of no
\* statement or expression that is entered through stmt or exprp runs: the
\* rules that run afterwards are those of types and of the fields and
\* parameters that check_local enters, a typedef entered afterwards is not
\* marked as checked, and an expression entered afterwards is marked at most.
C17_ErrorLatchGate ==
  /\ LatchKept
  /\ [](Latched =>
          /\ \A i \in 1..Len(RanAfterLatch) :
               IsStmtOrExpr(RanAfterLatch[i]) => RanAfterLatch[i] \in Range(ck.a.direct)
          /\ \A i \in 1..Len(MarkedAfterLatch) :
               ck.a.nodes[MarkedAfterLatch[i]].kind # "STMT_TYPEDEF")

\* the pass has ended after an error: an expression entered after it was
\* marked as checked without its rule running, and no typedef of the unit
\* was marked
C17_Witness ==
  /\ Latched /\ ck.pc = "done"
  /\ \E i \in 1..Len(MarkedAfterLatch) :
       /\ nodekind_isexpr(ck.a.nodes[MarkedAfterLatch[i]].kind)
       /\ ~HasRun(MarkedAfterLatch[i])
  /\ \A n \in Range(Children) :
       ck.a.nodes[n].kind = "STMT_TYPEDEF" => ~HasChecked(n)

----------------------------------------------------------------------------
\* Properties of identifiers that are not found

\* the diagnostics "unknown identifier" on the name nm
UnknownIdReports(nm) ==
  {i \in 1..Len(ck.a.diags) :
     /\ ck.a.diags[i].msg.fmt = "unknown identifier \"%s\""
     /\ ck.a.diags[i].msg.args = <<nm>>}

\* C18: an identifier that is found neither in the scopes nor in the package
\* is reported as an unknown identifier, and when that is done its name is
\* defined in the current scope, as an alias of void; the name is reported
\* once.
C18_UnknownIdDefined ==
  Checking =>
    \A i \in 1..Len(ck.a.missed) :
      LET m == ck.a.missed[i] IN
        /\ \E j \in UnknownIdReports(ck.a.nodes[m.node].name) : ck.a.diags[j].node = m.node
        /\ Cardinality(UnknownIdReports(ck.a.nodes[m.node].name)) = 1
        /\ m.def # 0
        /\ ck.a.nodes[m.def].kind = "alias"
        /\ ck.a.nodes[m.def].elem = PrimId("void")

----------------------------------------------------------------------------
\* Programs checked with memory that runs out

\* type Foo<T> { a T; b T }; fun f(p P1, q P2) { S }; type Bar { v int }
Prog_fatal(P1, P2, S) ==
  <<"unit", <<
    TypeFoo,
    <<"fun", "f", <<Param("p", P1), Param("q", P2)>>, TPrim("void"),
      <<"block", <<S>> >> >>,
    TypeBar >> >>

FatalPrograms ==
  {Prog_fatal(P1, P2, S) :
     P1 \in {TPrim("int"), <<"named", "Bar">>, Use("Foo", <<TPrim("int")>>)},
     P2 \in {TPrim("int"), Use("Foo", <<TPrim("int")>>)},
     S \in {Id("p"), Id("nope")}}

\* the allocations of a pass that can be made to fail
MaxAllocs == 12
\* at most two allocations of a pass fail
Failing == {F \in SUBSET (1..MaxAllocs) : Cardinality(F) <= 2}

\* the state of the pass before typecheck is called on the program, with
\* the allocations that will fail and the error ast_transform returns when
\* it fails
CkStartFailing(program, failing, err) ==
  LET s == CkStart(program, FALSE, 8)
  IN [s EXCEPT !.a.failing = failing, !.a.transform_err = err]

InitFatal ==
  /\ ck \in {CkStartFailing(P, F, e) :
              P \in FatalPrograms, F \in Failing, e \in {ErrNoMem, ErrInvalid}}
  /\ tc = Idle /\ lit = Idle /\ lay = Idle

SpecFatal == InitFatal /\ [][NextCk]_vars

----------------------------------------------------------------------------
\* Properties of the error code typecheck returns

Returned == Checking /\ ck.pc = "done"
\* C19: typecheck returns the first fatal error of the pass, whatever fatal
\* errors follow it, and 0 when there was none, whatever diagnostics were
\* reported; without a fatal error every declaration of the unit is visited.
C19_ReturnCode ==
  /\ Checking =>
       ck.a.err = (IF ck.a.fatals = <<>> THEN ErrNone ELSE ck.a.fatals[1])
  /\ (Returned /\ ck.a.fatals = <<>>) => ck.i = Len(Children) + 1

\* typecheck has returned the error of a failed ast_transform, which was
\* followed by an allocation that failed
C19_Witness ==
  /\ Returned /\ Len(ck.a.fatals) = 2
  /\ ck.a.fatals[1] = ErrInvalid /\ ck.a.fatals[2] = ErrNoMem
  /\ ck.a.err = ErrInvalid

----------------------------------------------------------------------------
\* Templates that use themselves

PtrTo(T) == <<"ptr", T>>
\* the type T behind w: a pointer, a reference or a mutable reference
Behind(w, T) == <<w, T>>
\* type Node<T> { next w Node<T>; v T }
TypeNode(w) ==
  <<"typedef", <<"tstruct", "Node", <<"T">>,
                 <<Field("next", Behind(w, Use("Node", << <<"ph", "T">> >>))),
                   Field("v", <<"ph", "T">>)>> >> >>

\* type Node<T> { next w Node<T>; v T }; type A Node<X>; type B Node<Y>;
\* type Bar { v int }
Prog_selfref(w, X, Y) ==
  <<"unit", <<
    TypeNode(w),
    <<"typedef", <<"alias", "A", Use("Node", <<X>>)>> >>,
    <<"typedef", <<"alias", "B", Use("Node", <<Y>>)>> >>,
    TypeBar >> >>

SelfRefArgs == {TPrim("int"), TPrim("i8"), <<"named", "Bar">>, PtrTo(TPrim("int"))}
SelfRefPrograms ==
  {Prog_selfref(w, X, Y) : w \in {"ptr", "ref", "mutref"}, X \in SelfRefArgs, Y \in SelfRefArgs}

InitSelfRef ==
  /\ ck \in {CkStart(P, FALSE, s) : P \in SelfRefPrograms, s \in {4, 8}}
  /\ tc = Idle /\ lit = Idle /\ lay = Idle

SpecSelfRef == InitSelfRef /\ [][NextCk]_vars

----------------------------------------------------------------------------
\* Properties of the instances of a template that uses itself

\* the instances in the memoization map
Instances == {ck.a.templateimap[i].val : i \in 1..Len(ck.a.templateimap)}
\* the struct a field type leads to through pointers, references and
\* optionals
RECURSIVE Pointee(_)
Pointee(t) ==
  IF ck.a.nodes[t].kind \in {"ptr", "ref", "mutref", "optional"}
  THEN Pointee(ck.a.nodes[t].elem) ELSE t
\* the instance n refers to itself in its first field
RefersToItself(n) ==
  LET fs == ck.a.nodes[n].fields IN
    Len(fs) > 0 /\ Pointee(ck.a.nodes[fs[1]].type) = n

\* C20: an instance is in the memoization map when its body is checked: the
\* use of the same instantiation in the body resolves to the instance
\* itself, each instance is checked once, there is one instance for each list
\* of arguments, and instantiation never nests deeper than the stack holds.
C20_RegisterBeforeCheck ==
  Checking =>
    /\ ~ck.a.overflow
    /\ \A n \in Instances :
         /\ RefersToItself(n)
         /\ Count(ck.a.ran, n) = 1
         /\ HasChecked(n)
    /\ \A i \in 1..Len(ck.a.templateimap) : \A j \in 1..Len(ck.a.templateimap) :
         ck.a.templateimap[i].key = ck.a.templateimap[j].key => i = j

\* the pass has ended without an error, with two instances of the template in
\* the map, each of which refers to itself
C20_Witness ==
  /\ Checking /\ ck.pc = "done" /\ ck.a.errcount = 0
  /\ Cardinality(Instances) = 2
  /\ \A n \in Instances : RefersToItself(n)


----------------------------------------------------------------------------
\* Templates whose body wraps the parameter

\* type Box<T> { c W }
TypeBox(W) == <<"typedef", <<"tstruct", "Box", <<"T">>, <<Field("c", W)>> >> >>

\* the field types of the template: the parameter bare and wrapped
BoxFields ==
  {<<"ph", "T">>, <<"ptr", <<"ph", "T">>>>, <<"optional", <<"ph", "T">>>>,
   <<"ref", <<"ph", "T">>>>, <<"slice", <<"ph", "T">>>>,
   <<"array", <<"ph", "T">>, ArrayLen>>}
BoxArgs == {TPrim("int"), TPrim("i8"), <<"named", "Bar">>}

\* type Box<T> { c W }; type A Box<X>; type B Box<Y>; type Bar { v int }
Prog_box(W, X, Y) ==
  <<"unit", <<
    TypeBox(W),
    <<"typedef", <<"alias", "A", Use("Box", <<X>>)>> >>,
    <<"typedef", <<"alias", "B", Use("Box", <<Y>>)>> >>,
    TypeBar >> >>

BoxPrograms == {Prog_box(W, X, Y) : W \in BoxFields, X \in BoxArgs, Y \in BoxArgs}

InitScrub ==
  /\ ck \in {CkStart(P, FALSE, s) : P \in BoxPrograms, s \in {4, 8}}
  /\ tc = Idle /\ lit = Idle /\ lay = Idle

SpecScrub == InitScrub /\ [][NextCk]_vars

\* C21: a type node an expansion made carries no cached type id and neither
\* the checked nor the unknown flag when the expansion is over.
C21_Scrubbed ==
  Checking =>
    \A e \in ck.a.expanded : e.typeid = <<>> /\ e.flags = {}

----------------------------------------------------------------------------
(***************************************************************************)
(* Construction of a primitive type T(x): call, call_type, call_type_prim  *)
(* and finalize_typecons.                                                   *)
(***************************************************************************)

\* the primitive types a value is constructed of
CastTypes ==
  {"bool", "i8", "i16", "i32", "i64", "int", "u8", "u16", "u32", "u64", "uint",
   "f32", "f64"}
\* the types of the argument
CastArgTypes == {"i8", "int", "u32", "f64"}

\* T(p), the receiver written as the primitive or as its alias My
Cast(T, aliased) ==
  <<"call", IF aliased THEN Id("My") ELSE <<"primid", T>>, <<Id("p")>> >>

\* type My T; fun f(p P) R { S }; type Bar { v int }
Prog_cast(T, P, R, S) ==
  <<"unit", <<
    <<"typedef", <<"alias", "My", TPrim(T)>> >>,
    <<"fun", "f", <<Param("p", TPrim(P))>>, R, <<"block", <<S>> >> >>,
    TypeBar >> >>

\* the construction as a statement, as the value of a local and as the
\* value of the function
CastPrograms ==
  UNION {{Prog_cast(T, P, TPrim("void"), Cast(T, al)),
          Prog_cast(T, P, TPrim("void"),
                    <<"let", "x", <<"prim", "unknown">>, Cast(T, al)>>),
          Prog_cast(T, P, TPrim(T), Cast(T, al))} :
         T \in CastTypes, P \in CastArgTypes, al \in BOOLEAN}

InitCast ==
  /\ ck \in {CkStart(P, TRUE, s) : P \in CastPrograms, s \in {4, 8}}
  /\ tc = Idle /\ lit = Idle /\ lay = Idle

SpecCast == InitCast /\ [][NextCk]_vars

\* the nodes that were calls in the program
CallNodes == {n \in 1..Len(ck.nodes0) : ck.nodes0[n].kind = "EXPR_CALL"}
\* the node that holds n in one of its slots
HolderOf(h, n) ==
  {m \in 1..Len(h) : n \in {h[m].init, h[m].value} \cup Range(h[m].children)}

\* the call n of a primitive type is a construction of its one argument
IsTypeCons(h, n) ==
  /\ h[n].kind = "EXPR_TYPECONS"
  /\ h[n].expr = ck.nodes0[n].args[1]

\* C22: when a function is checked, a call T(x) of a primitive type with one
\* argument is a type construction of that argument, or the argument itself
\* stands where the call stood when both have the same concrete type; the
\* dispatch on the kind of the receiver has met no kind it does not expect.
C22_PrimTypeCons ==
  Returned =>
    /\ ck.a.asserts = <<>>
    /\ \A n \in CallNodes :
         LET h == ck.a.nodes
             c == Compiler(ck.a.intsize)
             arg == ck.nodes0[n].args[1]
         IN \/ IsTypeCons(h, n)
            \/ /\ concrete_type(c, h, h[n].type) = concrete_type(c, h, h[arg].type)
               /\ HolderOf(h, n) = {}
               /\ HolderOf(h, arg) # {}

----------------------------------------------------------------------------
(***************************************************************************)
(* The implicit return of a function: fun, check_retval and mkretexpr.     *)
(***************************************************************************)

RefInt == <<"ref", TPrim("int")>>

\* fun f(p P) R { S1; S2 }; type Bar { v int }
Prog_result(P, R, S1, S2) ==
  <<"unit", <<
    <<"fun", "f", <<Param("p", P)>>, R, <<"block", <<S1, S2>> >> >>,
    TypeBar >> >>

ResultStmts ==
  {Id("p"), Id("q"), <<"int", 1>>, Return(Id("p")), Return(None),
   <<"let", "y", <<"prim", "unknown">>, Id("p")>>,
   <<"block", <<Return(Id("p")), Id("p")>> >>,
   <<"block", <<Id("p")>> >>, <<"block", <<>> >>}

ResultPrograms ==
  {Prog_result(P, R, S1, S2) :
     P \in {TPrim("int"), TPrim("i8"), RefInt},
     R \in {TPrim("void"), TPrim("int"), TPrim("i8"), RefInt},
     S1 \in ResultStmts, S2 \in ResultStmts}

InitResult ==
  /\ ck \in {CkStart(P, TRUE, s) : P \in ResultPrograms, s \in {4, 8}}
  /\ tc = Idle /\ lit = Idle /\ lay = Idle

SpecResult == InitResult /\ [][NextCk]_vars

\* the functions of the program that have a result, a body that is not
\* empty and no return among the statements of the body
ImplicitFuns ==
  {f \in 1..Len(ck.nodes0) :
     /\ ck.nodes0[f].kind = "EXPR_FUN"
     /\ ck.nodes0[ck.nodes0[f].type].result # PrimId("void")
     /\ ck.nodes0[ck.nodes0[f].body].children # <<>>
     /\ \A c \in Range(ck.nodes0[ck.nodes0[f].body].children) :
          ck.nodes0[c].kind # "EXPR_RETURN"}

\* the last statement of the body of f in the program, and now
FormerLast(f) ==
  LET ch == ck.nodes0[ck.nodes0[f].body].children IN ch[Len(ch)]
LastNow(f) ==
  LET ch == ck.a.nodes[ck.nodes0[f].body].children IN ch[Len(ch)]

\* the value of a function was checked against the result type: it is
\* assignable or the pass has reported an error
RetvalChecked(f, v) ==
  \/ type_isassignable(Compiler(ck.a.intsize), ck.a.nodes,
                       ck.a.nodes[ck.a.nodes[f].type].result, ck.a.nodes[v].type)
  \/ ck.a.errcount > 0

\* C23 as stated: the body of a checked function that has a result and no
\* return among its statements ends in a new return node whose value is the
\* former last statement, checked against the result type, and whose type
\* is the type of its value.
C23_AsStated ==
  Returned =>
    \A f \in ImplicitFuns :
      LET h == ck.a.nodes
          r == LastNow(f)
      IN /\ h[r].kind = "EXPR_RETURN" /\ r > Len(ck.nodes0)
         /\ h[r].value = FormerLast(f)
         /\ h[r].type = h[h[r].value].type
         /\ RetvalChecked(f, FormerLast(f))

\* v is the dereference check_retval put around the expression e: e is a
\* reference and the result of f is not
DerefOf(f, v, e) ==
  LET h == ck.a.nodes IN
    /\ h[v].kind = "EXPR_DEREF" /\ v > Len(ck.nodes0) /\ h[v].expr = e
    /\ type_isreflike(h, unwrap_alias(h, h[e].type))
    /\ ~type_isreflike(h, unwrap_alias(h, h[h[f].type].result))

\* C23: the body of a checked function that has a result and no return among
\* its statements ends in a new return node; its value is the former last
\* statement, or the dereference of it when that statement is a reference
\* and the result is not; the former last statement was checked against the
\* result type, and the type of the return node is the type of its value.
C23_ImplicitReturn ==
  Returned =>
    \A f \in ImplicitFuns :
      LET h == ck.a.nodes
          r == LastNow(f)
      IN /\ h[r].kind = "EXPR_RETURN" /\ r > Len(ck.nodes0)
         /\ \/ h[r].value = FormerLast(f)
            \/ DerefOf(f, h[r].value, FormerLast(f))
         /\ h[r].type = h[h[r].value].type
         /\ RetvalChecked(f, FormerLast(f))

\* a function without a return got one around its last statement in a
\* program without errors
C23_Witness ==
  /\ Returned /\ ck.a.errcount = 0
  /\ \E f \in ImplicitFuns :
       /\ ck.a.nodes[LastNow(f)].kind = "EXPR_RETURN"
       /\ ck.a.nodes[LastNow(f)].value = FormerLast(f)

----------------------------------------------------------------------------
\* The type of a block (block_noscope)

\* the blocks of the program that block_noscope has worked on: no error cut
\* the pass short, and the block is the body of a checked function or was
\* checked as an expression
BlocksDone ==
  IF ck.a.reported_error THEN {}
  ELSE {b \in 1..Len(ck.nodes0) :
          /\ ck.nodes0[b].kind = "EXPR_BLOCK"
          /\ \/ "NF_CHECKED" \in ck.a.nodes[b].flags
             \/ \E f \in 1..Len(ck.nodes0) :
                  /\ ck.nodes0[f].kind = "EXPR_FUN" /\ ck.nodes0[f].body = b
                  /\ "NF_CHECKED" \in ck.a.nodes[f].flags}

\* the returns among the statements of the block b, in the program
ReturnsOf(b) ==
  {i \in 1..Len(ck.nodes0[b].children) :
     ck.nodes0[ck.nodes0[b].children[i]].kind = "EXPR_RETURN"}

\* the block b is used as a value, has statements and no return among them
HasValue(b) ==
  /\ "NF_RVALUE" \in ck.a.nodes[b].flags
  /\ ck.nodes0[b].children # <<>>
  /\ ReturnsOf(b) = {}

\* the last statement of b in the program
LastOf(b) == ck.nodes0[b].children[Len(ck.nodes0[b].children)]
\* the first return among the statements of b
FirstReturnOf(b) ==
  ck.nodes0[b].children[CHOOSE i \in ReturnsOf(b) : \A j \in ReturnsOf(b) : i <= j]

OwnWraps == {"bare", "optional", "alias", "array"}

\* the type of a field that holds the type named nm: nm, ?nm, the alias nm nm
\* of it, or [nm ArrayLen]
OwnWrap(w, nm) ==
  CASE w = "bare" -> <<"named", nm>>
    [] w = "optional" -> <<"optional", <<"named", nm>> >>
    [] w = "alias" -> <<"named", nm \o nm>>
    [] w = "array" -> <<"array", <<"named", nm>>, ArrayLen>>

\* fun A.drop(mut this) {}
DropA ==
  <<"tfun", <<"named", "A">>, "drop", << <<"this", TRUE, <<"named", "A">> >> >>,
    TPrim("void"), <<"block", <<>> >> >>

OwnA == <<"typedef", <<"struct", "A", <<Field("v", TPrim("int"))>> >> >>
OwnB(W1) == <<"typedef", <<"struct", "B", <<Field("a", OwnWrap(W1, "A"))>> >> >>
OwnC(W2) == <<"typedef", <<"struct", "C", <<Field("b", OwnWrap(W2, "B"))>> >> >>

\* type AA = A; type BB = B; type C { b W2(B) }; type B { a W1(A) };
\* type A { v int }, in this order or with the structs first and reversed, and
\* "fun A.drop(mut this) {}" before or after the types
Prog_own(W1, W2, dropfirst, rev) ==
  LET aliases == <<TypeAlias("AA", <<"named", "A">>), TypeAlias("BB", <<"named", "B">>)>>
      types == IF rev THEN <<OwnA, OwnB(W1), OwnC(W2)>> \o aliases
               ELSE aliases \o <<OwnC(W2), OwnB(W1), OwnA>>
  IN <<"unit", IF dropfirst THEN <<DropA>> \o types ELSE types \o <<DropA>> >>

OwnPrograms ==
  {Prog_own(W1, W2, d, r) : W1 \in OwnWraps, W2 \in OwnWraps,
                            d \in BOOLEAN, r \in BOOLEAN}

InitOwn ==
  /\ ck \in {CkStart(P, TRUE, 8) : P \in OwnPrograms}
  /\ tc = Idle /\ lit = Idle /\ lay = Idle

SpecOwn == InitOwn /\ [][NextCk]_vars

\* a type that owns: a type with a drop function, a pointer, an alias, optional
\* or array of an owner, or a struct with a field that owns
RECURSIVE Owns(_, _, _)
Owns(h, t, fuel) ==
  IF fuel = 0 \/ t = 0 THEN FALSE
  ELSE CASE h[t].kind = "struct" ->
              \/ "NF_DROP" \in h[t].flags
              \/ \E i \in 1..Len(h[t].fields) : Owns(h, h[h[t].fields[i]].type, fuel - 1)
         [] h[t].kind = "ptr" -> TRUE
         [] h[t].kind \in {"alias", "optional", "array"} -> Owns(h, h[t].elem, fuel - 1)
         [] h[t].kind = "unresolved" -> Owns(h, h[t].resolved, fuel - 1)
         [] OTHER -> FALSE

\* the checked structs of the package that have a field whose type owns
OwningStructs ==
  {t \in DOMAIN ck.a.nodes :
     /\ ck.a.nodes[t].kind = "struct" /\ "NF_CHECKED" \in ck.a.nodes[t].flags
     /\ \E i \in 1..Len(ck.a.nodes[t].fields) :
          Owns(ck.a.nodes, ck.a.nodes[ck.a.nodes[t].fields[i]].type,
               Len(ck.nodes0))}

\* C25: once the pass has returned without an error, every checked struct with
\* a field whose type owns (directly, through an alias, optional or array, or
\* through other structs) carries NF_SUBOWNERS, whatever the order of the
\* declarations and of the post-analysis queue
C25_OwnersFlagged ==
  (Returned /\ ck.a.errcount = 0) =>
    \A t \in OwningStructs : "NF_SUBOWNERS" \in ck.a.nodes[t].flags

\* ---------------------------------------------------------------------------
\* Narrowing with two optionals under "!", "&&" and "||"

\* fun f(a ?int, b ?i8, c bool) { if COND { a; b } ELSE }; type Bar { v int }
Prog_narrow(cond, elseb) ==
  <<"unit", <<
    <<"fun", "f",
      << Param("a", <<"optional", TPrim("int")>>),
         Param("b", <<"optional", TPrim("i8")>>),
         Param("c", TPrim("bool")) >>,
      TPrim("void"),
      <<"block", << <<"if", cond, <<"block", <<Id("a"), Id("b")>> >>, elseb>> >> >> >>,
    TypeBar >> >>

PolarityConds ==
  {Id("a"), Not(Id("a")), Not(Not(Id("a"))), Not(Not(Not(Id("a")))),
   Bin("&&", Id("a"), Not(Id("b"))), Not(Bin("&&", Id("a"), Not(Id("b")))),
   Bin("&&", Not(Id("a")), Id("b")), Bin("||", Id("a"), Not(Id("b"))),
   Not(Bin("||", Not(Id("a")), Id("b"))), Bin("&&", Id("c"), Not(Id("a"))),
   Not(Bin("&&", Id("c"), Id("a"))),
   Bin("&&", Id("a"), Not(Id("a"))), Bin("&&", Not(Id("a")), Id("a")),
   Bin("||", Id("a"), Not(Id("a"))), Not(Bin("&&", Id("a"), Not(Id("a"))))}

NarrowElses == {None, <<"block", <<Id("a"), Id("b")>> >>}

NarrowPrograms == {Prog_narrow(c, e) : c \in PolarityConds, e \in NarrowElses}

InitNarrow ==
  /\ ck \in {CkStart(P, FALSE, s) : P \in NarrowPrograms, s \in IntSizes}
  /\ tc = Idle /\ lit = Idle /\ lay = Idle

SpecNarrow == InitNarrow /\ [][NextCk]_vars

\* the occurrences of optionals the narrower meets in the condition x, in the
\* order of its walk, each with the number of "!" above it
RECURSIVE NarrowOcc(_, _, _)
NarrowOcc(h, x, nots) ==
  IF IsNot(h[x]) THEN NarrowOcc(h, h[x].expr, nots + 1)
  ELSE IF h[x].kind = "EXPR_BINOP" /\ h[x].op \in {"&&", "||"}
  THEN NarrowOcc(h, h[x].left, nots) \o NarrowOcc(h, h[x].right, nots)
  ELSE IF h[x].kind = "EXPR_ID" /\ h[x].type # 0 /\ h[h[x].type].kind = "optional"
  THEN << [n |-> x, nots |-> nots] >>
  ELSE <<>>

\* the bindings the narrower made for the then-scope: the narrowed copies of
\* parameters, in the order they were made
NarrowedCopies ==
  {m \in CkNodes : /\ m > Len(ck.nodes0) /\ ck.a.nodes[m].kind = "EXPR_PARAM"
                   /\ "NF_NARROWED" \in ck.a.nodes[m].flags}
NthCopy(k) ==
  CHOOSE m \in NarrowedCopies : Cardinality({j \in NarrowedCopies : j < m}) = k - 1

\* the "if" expressions whose condition the narrower accepted
NarrowedIfs == {n \in RanIfs : ~RejectedMix(n)}

\* C26: the binding an occurrence of an optional introduces in the condition
\* of an "if" is negative (its type in the then-scope is void) exactly when
\* the occurrence lies under an odd number of "!", and has the type T of the
\* ?T otherwise: "!!a" narrows like "a", in "a && !b" only b is negative
C26_Polarity ==
  Returned =>
    \A n \in NarrowedIfs :
      LET h == ck.a.nodes
          occ == NarrowOcc(h, h[n].cond, 0)
      IN /\ Cardinality(NarrowedCopies) >= Len(occ)
         /\ \A i \in 1..Len(occ) :
              /\ h[NthCopy(i)].name = h[occ[i].n].name
              /\ h[NthCopy(i)].type =
                   IF occ[i].nots % 2 = 1 THEN PrimId("void")
                   ELSE h[h[occ[i].n].type].elem

\* a finished pass over a condition with a binding under two "!" and one
\* under one, as in "!(a && !b)"
C26_Witness ==
  /\ Returned /\ ck.a.errcount = 0
  /\ \E n \in NarrowedIfs :
       LET occ == NarrowOcc(ck.a.nodes, ck.a.nodes[n].cond, 0)
       IN /\ \E i \in 1..Len(occ) : occ[i].nots = 2
          /\ \E i \in 1..Len(occ) : occ[i].nots = 1
          /\ ck.a.nodes[n].elseb # 0

\* ---------------------------------------------------------------------------
\* The error flag of the pass

\* the error diagnostics emitted so far
ErrorDiags == {i \in 1..Len(ck.a.diags) : ck.a.diags[i].kind = "DIAG_ERR"}

\* C27: whenever an error diagnostic has been emitted during the pass, by
\* any rule or by the narrower, reported_error is true
C27_ReportedError == Checking => (ErrorDiags # {} => ck.a.reported_error)

\* ---------------------------------------------------------------------------
\* The scope stack

\* the number of scopes that are open
ScopeDepth(s) == Cardinality({i \in 1..Len(s.ents) : s.ents[i].n = 0})

\* C28: the scope depth when the check of a node returns equals the depth
\* when it was entered, on every path: the check of a statement of the unit,
\* whatever "if" it holds, leaves as many scopes open as it found
C28_ScopeBalance ==
  [][(ck.pc = "stmts" /\ ck'.pc = "stmts")
       => ScopeDepth(ck'.a.scope) = ScopeDepth(ck.a.scope)]_vars

\* ---------------------------------------------------------------------------
\* The type context: calls, constructions and locals, with pushes that find
\* no memory

CallG(args) == <<"call", Id("g"), args>>
ConsBar(args) == <<"call", Id("Bar"), args>>

\* the statements of f: calls of g that fit, that pass a wrong type and that
\* pass too few arguments; constructions of Bar that fit, with a name that is
\* no field, with a positional argument and with a value too many; a
\* conversion; a local
CtxStmts ==
  {CallG(<<Id("v"), Id("w")>>), CallG(<<Id("w"), Id("w")>>), CallG(<<Id("v")>>),
   ConsBar(<<Id("v")>>), ConsBar(<<Id("w")>>), ConsBar(<< <<"int", 1>> >>),
   ConsBar(<<Id("v"), Id("v")>>),
   <<"call", <<"primid", "i8">>, <<Id("v")>> >>,
   <<"let", "x", TPrim("int"), Id("v")>>}

\* type Bar { v int }; fun g(p int, q i8) int { p }; fun f(v int, w i8) { S }
Prog_ctx(S) ==
  <<"unit", <<
    TypeBar,
    <<"fun", "g", <<Param("p", TPrim("int")), Param("q", TPrim("i8"))>>,
      TPrim("int"), <<"block", <<Id("p")>> >> >>,
    <<"fun", "f", <<Param("v", TPrim("int")), Param("w", TPrim("i8"))>>,
      TPrim("void"), <<"block", <<S>> >> >> >> >>

\* the pushes that fail: none, or one of the first MaxPush
MaxPush == 3
PushFails == {{}} \cup {{k} : k \in 1..MaxPush}

\* what a read before the stack's array may yield
WildTypes == {PrimId("void"), PrimId("int")}

CkStartPush(program, pushfail, wild) ==
  LET s == CkStart(program, TRUE, 8)
  IN [s EXCEPT !.a.pushfail = pushfail, !.a.wild = wild]

InitCtx ==
  /\ ck \in {CkStartPush(Prog_ctx(S), F, w) :
               S \in CtxStmts, F \in PushFails, w \in WildTypes}
  /\ tc = Idle /\ lit = Idle /\ lay = Idle

SpecCtx == InitCtx /\ [][NextCk]_vars

\* C29: every push of an expected type is matched by one pop on every path,
\* so the expected type and the depth of the context stack are the same after
\* each step of the pass as before it; the expected type is void at the start
\* and hence at the end
C29_TypectxBalance ==
  /\ (Checking => ck.a.typectx = PrimId("void") /\ ck.a.typectxstack = <<>>)
  /\ [][/\ ck'.a.typectx = ck.a.typectx
        /\ Len(ck'.a.typectxstack) = Len(ck.a.typectxstack)]_vars

\* ---------------------------------------------------------------------------
\* The two branches of a narrowed "if"

\* the identifiers in the expression e that are written with the name nm
NamedIn(e, nm) ==
  {m \in Subtree(ck.a.nodes, e) :
     ck.a.nodes[m].kind = "EXPR_ID" /\ ck.a.nodes[m].name = nm}

\* C30: for every name of type ?T in the condition of an "if" with an else
\* branch, what the name stands for in the then-branch and what it stands for
\* in the else-branch are complementary, one of type T and the other of type
\* void, also when the name occurs twice with different polarity
C30_Complementary ==
  Returned =>
    \A n \in NarrowedIfs :
      LET h == ck.a.nodes
          occ == NarrowOcc(h, h[n].cond, 0)
      IN h[n].elseb # 0 =>
           \A i \in 1..Len(occ) :
             \A mt \in NamedIn(h[n].thenb, h[occ[i].n].name) :
               \A me \in NamedIn(h[n].elseb, h[occ[i].n].name) :
                 /\ {h[mt].type, h[me].type} =
                      {h[h[occ[i].n].type].elem, PrimId("void")}
                 /\ h[mt].type # h[me].type

====
